---- MODULE Spec2Model ----
(***************************************************************************)
(* State-machine model of the MSO REST client (package client) and of the  *)
(* site service graph resource that uses it.                               *)
(*                                                                         *)
(* Text is modelled as a sequence of one-character strings, durations as   *)
(* exact rationals [num, den] in seconds, JSON documents as records.       *)
(***************************************************************************)
EXTENDS Integers, Sequences, FiniteSets, TLC

VARIABLES
    c,          \* the Client struct (the fields the operations read or write)
    now,        \* wall clock, in seconds
    do,         \* the frame of the DoWithRetryFunc call in progress
    auth,       \* the frame of the Authenticate call in progress
    clientImpl, \* the singleton pointer: 0 is nil, else an index of heap
    heap,       \* the Client structs initClient has allocated, in order
    callers,    \* the frame of each goroutine calling GetClient
    exited,     \* log.Fatal has ended the process
    call,       \* the frame of the GetDomainId, GetVersion, CompareVersion or
                \* request call in progress
    gos,        \* the frame of each goroutine calling Authenticate
    built,      \* history: the Client as initClient returned it
    tf          \* the site service graph resource: its data and the server

vars == <<c, now, do, auth, clientImpl, heap, callers, exited, call, gos, built, tf>>

\* The singleton's part of the state.
gvars == <<clientImpl, heap, callers, exited>>

\* The part of the state only some of the operations touch.
ovars == <<call, gos, built, tf>>

------------------------------------------------------------------------------
(* Bounds of the model.                                                    *)

\* Largest maxRetries a client of the model is constructed with.
MaxRetriesBound == 2

\* rand.Float64() is drawn from {0/RandSteps, ..., RandSteps/RandSteps}.
RandSteps == 2

\* The clock stops ticking here.
MaxTime == 2

\* Goroutines that call GetClient, or Authenticate.
NumCallers == 2

------------------------------------------------------------------------------
(* Program constants.                                                      *)

DefaultBackoffMinDelay == 4
DefaultBackoffMaxDelay == 60
DefaultBackoffDelayFactor == 3

\* refreshTime handed to CalculateExpiry by Authenticate.
RefreshTime == 1200

StatusNoContent == 204
StatusOKLow == 200
StatusOKHigh == 300
StatusTooManyRequests == 429
StatusServiceUnavailable == 503

------------------------------------------------------------------------------
(* Text.                                                                   *)

Q == "\""

NoText == << >>

HasPrefix(word, ch) == Len(word) > 0 /\ word[1] = ch

HasSuffix(word, ch) == Len(word) > 0 /\ word[Len(word)] = ch

TrimPrefix(word, ch) == IF HasPrefix(word, ch) THEN Tail(word) ELSE word

TrimSuffix(word, ch) ==
    IF HasSuffix(word, ch) THEN SubSeq(word, 1, Len(word) - 1) ELSE word

\* stripQuotes: both quotes go, or none.
stripQuotes(word) ==
    IF HasPrefix(word, Q) /\ HasSuffix(word, Q)
    THEN TrimSuffix(TrimPrefix(word, Q), Q)
    ELSE word

------------------------------------------------------------------------------
(* JSON documents (package container).                                     *)

\* A JSON value found by Container.S(key): absent, a string, or an object.
Absent == [t |-> "absent", s |-> NoText]

Str(s) == [t |-> "str", s |-> s]

\* Container.String(): the JSON text of the value; "{}" when there is no data.
ContainerString(v) ==
    IF v.t = "str" THEN <<Q>> \o v.s \o <<Q>> ELSE <<"{", "}">>

\* models.StripQuotes, the exported twin of stripQuotes.
StripQuotes(word) ==
    IF HasPrefix(word, Q) /\ HasSuffix(word, Q)
    THEN TrimSuffix(TrimPrefix(word, Q), Q)
    ELSE word

\* The nil *container.Container.
NilObj == [kind |-> "nil", tag |-> "", token |-> Absent, version |-> Absent,
           isArray |-> FALSE, domains |-> << >>, isErr |-> FALSE]

\* A response body that is no JSON.
Garbage == [kind |-> "garbage", tag |-> "", token |-> Absent, version |-> Absent,
            isArray |-> FALSE, domains |-> << >>, isErr |-> FALSE]

\* A response body that is a JSON object.
Doc(tag) == [kind |-> "doc", tag |-> tag, token |-> Absent, version |-> Absent,
             isArray |-> FALSE, domains |-> << >>, isErr |-> FALSE]

TokenDoc(v) == [Doc("login") EXCEPT !.token = v]

DomainsDoc(list) == [Doc("domains") EXCEPT !.isArray = TRUE, !.domains = list]

ErrorDoc == [Doc("error") EXCEPT !.isErr = TRUE]

VersionDoc(v) == [Doc("version") EXCEPT !.version = v]

\* container.ParseJSON: the container, or nil and an error.
ParseJSON(bytes) ==
    IF bytes.kind = "doc" THEN [err |-> FALSE, obj |-> bytes]
    ELSE [err |-> TRUE, obj |-> NilObj]

------------------------------------------------------------------------------
(* Errors and return values.                                               *)

NoErr == [kind |-> "nil", code |-> 0, attempts |-> 0]

TransportErr == [kind |-> "transport", code |-> 0, attempts |-> 0]

\* The error of ioutil.ReadAll on the response body.
ReadErr == [kind |-> "read", code |-> 0, attempts |-> 0]

\* fmt.Errorf("... failed with status code %d after %d attempts", ...)
StatusErr(code, attempts) == [kind |-> "status", code |-> code, attempts |-> attempts]

Ret(obj, resp, err) == [obj |-> obj, resp |-> resp, err |-> err]

\* *http.Response is nil, or holds the status code.
NilResp == 0

------------------------------------------------------------------------------
(* URLs (package net/url), as MakeRestRequest and initClient use them. The  *)
(* texts of the model hold no escapes, no user information and lower-case   *)
(* schemes.                                                                 *)

\* strings.Index(text, ch): the first position of ch in text, 0 for none.
IndexOf(text, ch) ==
    IF \E i \in 1..Len(text) : text[i] = ch
    THEN CHOOSE i \in 1..Len(text) :
             text[i] = ch /\ \A j \in 1..(i - 1) : text[j] # ch
    ELSE 0

\* strings.LastIndex(text, ch): the last position of ch in text, 0 for none.
LastIndexOf(text, ch) ==
    IF \E i \in 1..Len(text) : text[i] = ch
    THEN CHOOSE i \in 1..Len(text) :
             text[i] = ch /\ \A j \in (i + 1)..Len(text) : text[j] # ch
    ELSE 0

\* text[:i] and text[i:], with the positions of the model.
Upto(text, i) == SubSeq(text, 1, i)

From(text, i) == SubSeq(text, i, Len(text))

\* strings.Split(text, sep), from position i on, cur being the piece read.
RECURSIVE SplitFrom(_, _, _, _)
SplitFrom(text, sep, i, cur) ==
    IF i > Len(text) THEN <<cur>>
    ELSE IF text[i] = sep THEN <<cur>> \o SplitFrom(text, sep, i + 1, << >>)
    ELSE SplitFrom(text, sep, i + 1, Append(cur, text[i]))

SplitOn(text, sep) == SplitFrom(text, sep, 1, << >>)

\* The zero url.URL.
NoUrl ==
    [Scheme |-> NoText, Opaque |-> NoText, Host |-> NoText, Path |-> NoText,
     ForceQuery |-> FALSE, RawQuery |-> NoText, Fragment |-> NoText]

\* getScheme: the text before the first ':' when only letters, digits, '+',
\* '-' and '.' precede it and a letter starts it; a ':' in front is an error.
\* Of the pieces of text of the model, "/", "?", "#", "&", "=", "@" and ";"
\* cannot be part of a scheme, and ".", "..", "+", "-", "1" and "8443"
\* cannot start one.
RECURSIVE getScheme(_, _)
getScheme(rawURL, i) ==
    IF i > Len(rawURL) THEN [scheme |-> NoText, rest |-> rawURL, err |-> FALSE]
    ELSE IF rawURL[i] = ":"
    THEN IF i = 1 THEN [scheme |-> NoText, rest |-> NoText, err |-> TRUE]
         ELSE [scheme |-> Upto(rawURL, i - 1), rest |-> From(rawURL, i + 1),
               err |-> FALSE]
    ELSE IF \/ rawURL[i] \in {"/", "?", "#", "&", "=", "@", ";"}
            \/ i = 1 /\ rawURL[i] \in {".", "..", "+", "-", "1", "8443"}
    THEN [scheme |-> NoText, rest |-> rawURL, err |-> FALSE]
    ELSE getScheme(rawURL, i + 1)

\* The end of url.parse: the authority after a leading "//" (not "///"),
\* and the path.
ParseAuthorityAndPath(url, rest) ==
    IF Len(rest) >= 2 /\ rest[1] = "/" /\ rest[2] = "/"
       /\ (url.Scheme # NoText \/ ~(Len(rest) >= 3 /\ rest[3] = "/"))
    THEN LET authority == From(rest, 3)
             i == IndexOf(authority, "/")
         IN  [url EXCEPT !.Host = IF i = 0 THEN authority ELSE Upto(authority, i - 1),
                         !.Path = IF i = 0 THEN NoText ELSE From(authority, i)]
    ELSE [url EXCEPT !.Path = rest]

\* url.Parse: the fragment, the scheme, the query, then an opaque rest, a
\* relative path whose first segment holds a ':' (an error), or the
\* authority and the path.
Parse(rawURL) ==
    LET hash == IndexOf(rawURL, "#")
        u == IF hash = 0 THEN rawURL ELSE Upto(rawURL, hash - 1)
        frag == IF hash = 0 THEN NoText ELSE From(rawURL, hash + 1)
        s == getScheme(u, 1)
        q == IndexOf(s.rest, "?")
        force == q # 0 /\ q = Len(s.rest)
        rest == IF q = 0 THEN s.rest ELSE Upto(s.rest, q - 1)
        url == [NoUrl EXCEPT !.Scheme = s.scheme, !.Fragment = frag,
                             !.ForceQuery = force,
                             !.RawQuery = IF q = 0 \/ force THEN NoText
                                          ELSE From(s.rest, q + 1)]
    IN  IF s.err THEN [err |-> TRUE, url |-> NoUrl]
        ELSE IF ~HasPrefix(rest, "/") /\ s.scheme # NoText
        THEN [err |-> FALSE, url |-> [url EXCEPT !.Opaque = rest]]
        ELSE IF ~HasPrefix(rest, "/") /\ IndexOf(SplitOn(rest, "/")[1], ":") # 0
        THEN [err |-> TRUE, url |-> NoUrl]
        ELSE [err |-> FALSE, url |-> ParseAuthorityAndPath(url, rest)]

\* url.Values: the pairs of a query, in their order.
\* url.ParseQuery, as URL.Query uses it: the pieces between '&', each cut at
\* its first '='; an empty piece and a piece that holds a ';' are left out.
RECURSIVE PairsOf(_)
PairsOf(pieces) ==
    IF pieces = << >> THEN << >>
    ELSE LET p == Head(pieces)
             i == IndexOf(p, "=")
             pair == [key |-> IF i = 0 THEN p ELSE Upto(p, i - 1),
                      value |-> IF i = 0 THEN NoText ELSE From(p, i + 1)]
         IN  IF p = NoText \/ IndexOf(p, ";") # 0 THEN PairsOf(Tail(pieces))
             ELSE <<pair>> \o PairsOf(Tail(pieces))

Query(url) == PairsOf(SplitOn(url.RawQuery, "&"))

\* A Set that adds the value to those the key has.
SetAdding(values, key, value) ==
    Append(values, [key |-> key, value |-> value])

\* Values.Set: the key gets this value and no other.
Set(values, key, value) ==
    LET HasOtherKey(p) == p.key # key
    IN  Append(SelectSeq(values, HasOtherKey), [key |-> key, value |-> value])

\* The place of a piece of text of the model in the order of the bytes.
RankOfPiece(t) ==
    LET Alphabet == <<"1", "2", "a", "api", "b", "false", "schemas", "true", "v1",
                      "validate", "z">>
    IN  CHOOSE i \in 1..Len(Alphabet) : Alphabet[i] = t

\* a < b for two keys, piece by piece.
RECURSIVE KeyLess(_, _)
KeyLess(a, b) ==
    IF b = << >> THEN FALSE
    ELSE IF a = << >> THEN TRUE
    ELSE IF Head(a) = Head(b) THEN KeyLess(Tail(a), Tail(b))
    ELSE RankOfPiece(Head(a)) < RankOfPiece(Head(b))

\* sort.Strings of the keys.
RECURSIVE SortKeys(_)
SortKeys(keys) ==
    IF keys = {} THEN << >>
    ELSE LET k == CHOOSE m \in keys : \A n \in keys \ {m} : KeyLess(m, n)
         IN  <<k>> \o SortKeys(keys \ {k})

\* The text key=value&key=value of the pairs, from the n-th on.
RECURSIVE JoinPairs(_, _)
JoinPairs(pairs, n) ==
    IF n > Len(pairs) THEN NoText
    ELSE (IF n > 1 THEN <<"&">> ELSE NoText)
         \o pairs[n].key \o <<"=">> \o pairs[n].value \o JoinPairs(pairs, n + 1)

\* The pairs ordered by the sorted keys, the values of a key in their order.
RECURSIVE PairsByKey(_, _)
PairsByKey(values, keys) ==
    IF keys = << >> THEN << >>
    ELSE LET HasKey(p) == p.key = Head(keys)
         IN  SelectSeq(values, HasKey) \o PairsByKey(values, Tail(keys))

\* Values.Encode: key=value pairs joined by '&', sorted by key.
Encode(values) ==
    JoinPairs(PairsByKey(values,
                         SortKeys({values[n].key : n \in 1..Len(values)})), 1)

\* The loop of resolvePath over the segments from the n-th on: dst is the
\* text written after the leading '/', first says that nothing stands in
\* front of the next segment.
RECURSIVE RemoveDots(_, _, _, _)
RemoveDots(segs, n, dst, first) ==
    IF n > Len(segs) THEN dst
    ELSE IF segs[n] = <<".">> THEN RemoveDots(segs, n + 1, dst, FALSE)
    ELSE IF segs[n] = <<"..">>
    THEN LET index == LastIndexOf(dst, "/")
         IN  IF index = 0 THEN RemoveDots(segs, n + 1, NoText, TRUE)
             ELSE RemoveDots(segs, n + 1, Upto(dst, index - 1), first)
    ELSE RemoveDots(segs, n + 1,
                    (IF first THEN dst ELSE Append(dst, "/")) \o segs[n], FALSE)

\* resolvePath: ref against the directory of base, the segments "." and ".."
\* worked out, one leading '/'.
resolvePath(base, ref) ==
    LET full == IF ref = NoText THEN base
                ELSE IF ref[1] # "/" THEN Upto(base, LastIndexOf(base, "/")) \o ref
                ELSE ref
        segs == SplitOn(full, "/")
        last == segs[Len(segs)]
        dst == RemoveDots(segs, 1, NoText, TRUE)
        r == <<"/">> \o dst \o (IF last = <<".">> \/ last = <<"..">> THEN <<"/">>
                                ELSE NoText)
    IN  IF full = NoText THEN NoText
        ELSE IF Len(r) > 1 /\ r[2] = "/" THEN Tail(r)
        ELSE r

\* URL.ResolveReference: an absolute reference or one with a host stands for
\* itself; an opaque one keeps no host and no path; any other is resolved
\* against the host and the path of u.
ResolveReference(u, ref) ==
    LET url == [ref EXCEPT !.Scheme = IF ref.Scheme = NoText THEN u.Scheme ELSE @]
    IN  IF ref.Scheme # NoText \/ ref.Host # NoText
        THEN [url EXCEPT !.Path = resolvePath(ref.Path, NoText)]
        ELSE IF ref.Opaque # NoText
        THEN [url EXCEPT !.Host = NoText, !.Path = NoText]
        ELSE LET inherits == ref.Path = NoText /\ ~ref.ForceQuery
                             /\ ref.RawQuery = NoText
             IN  [url EXCEPT !.RawQuery = IF inherits THEN u.RawQuery ELSE @,
                             !.Fragment = IF inherits /\ ref.Fragment = NoText
                                          THEN u.Fragment ELSE @,
                             !.Host = u.Host,
                             !.Path = resolvePath(u.Path, ref.Path)]

------------------------------------------------------------------------------
(* Paths and requests.                                                     *)

LoginPathND == <<"/", "login">>

LoginPathMSO == <<"/", "api", "/", "v1", "/", "auth", "/", "login">>

LoginDomainsPath == <<"/", "api", "/", "v1", "/", "auth", "/", "login-domains">>

SchemasPath == <<"/", "api", "/", "v1", "/", "schemas">>

VersionPath == <<"/", "api", "/", "v1", "/", "platform", "/", "version">>

\* The request goes to this path, directly or through the gateway.
IsPath(p, target) == p = target \/ p = <<"mso", "/">> \o Tail(target)

\* No request: path is the path as MakeRestRequest logs it, url the URL of
\* the request.
NoReq == [method |-> "", path |-> NoText, url |-> NoUrl, validate |-> FALSE,
          body |-> << >>, auth |-> FALSE]

\* InjectAuthenticationHeader: refuses before the first successful login.
InjectAuthenticationHeader(cl, req) ==
    IF cl.AuthToken.set THEN [err |-> FALSE, req |-> [req EXCEPT !.auth = TRUE]]
    ELSE [err |-> TRUE, req |-> req]

\* Lines 551-556: on nd every path but /login loses one leading '/' and gets
\* the prefix mso/.
GatewayPath(platform, path) ==
    IF platform = "nd" /\ path # LoginPathND
    THEN <<"mso", "/">> \o (IF HasPrefix(path, "/") THEN Tail(path) ELSE path)
    ELSE path

\* Lines 561-565: on PATCH the query is parsed, validate is set to false and
\* the query is encoded again.
WithValidate(method, url) ==
    IF method = "PATCH"
    THEN [url EXCEPT !.RawQuery = Encode(Set(Query(url), <<"validate">>, <<"false">>))]
    ELSE url

\* MakeRestRequest: the gateway prefix, the parse of the path (an error ends
\* it), validate=false on PATCH, the URL resolved against the base URL, the
\* body buffer (GET and DELETE carry none), the authentication header.
MakeRestRequest(cl, method, path, body, authenticated) ==
    LET p == GatewayPath(cl.platform, path)
        parsed == Parse(p)
        r == [method |-> method, path |-> p,
              url |-> ResolveReference(cl.BaseURL, WithValidate(method, parsed.url)),
              validate |-> (method = "PATCH"),
              body |-> IF method = "GET" \/ method = "DELETE" THEN << >> ELSE <<body>>,
              auth |-> FALSE]
    IN  IF parsed.err THEN [err |-> TRUE, req |-> NoReq]
        ELSE IF authenticated THEN InjectAuthenticationHeader(cl, r)
        ELSE [err |-> FALSE, req |-> r]

------------------------------------------------------------------------------
(* backoff.                                                                *)

RECURSIVE Pow(_, _)
Pow(b, e) == IF e = 0 THEN 1 ELSE b * Pow(b, e - 1)

\* The factor is a rational; an option left unset is 0.
Ratio(n, d) == [num |-> n, den |-> d]

EffMinDelay(cl) ==
    IF cl.backoffMinDelay # 0 THEN cl.backoffMinDelay ELSE DefaultBackoffMinDelay

EffMaxDelay(cl) ==
    IF cl.backoffMaxDelay # 0 THEN cl.backoffMaxDelay ELSE DefaultBackoffMaxDelay

EffFactor(cl) ==
    IF cl.backoffDelayFactor.num # 0 THEN cl.backoffDelayFactor
    ELSE Ratio(DefaultBackoffDelayFactor, 1)

\* A backoff that forgets the clamp to maxDelay.
ClampedBackoffUnclamped(raw, maxDelay, d) == raw

\* The clamp of backoff: min * factor^attempts over the denominator d, no more
\* than maxDelay.
ClampedBackoff(raw, maxDelay, d) == IF raw > maxDelay * d THEN maxDelay * d ELSE raw

\* The delay backoff sleeps at attempt a when rand.Float64() returns
\* r / RandSteps: (rand/2 + 0.5) * (backoff - min) + min, in seconds.
BackoffDelay(cl, a, r) ==
    LET min == EffMinDelay(cl)
        f == EffFactor(cl)
        d == Pow(f.den, a)
        backoff == ClampedBackoff(min * Pow(f.num, a), EffMaxDelay(cl), d)
        jn == r + RandSteps
        jd == 2 * RandSteps
    IN  Ratio(jn * (backoff - min * d) + min * d * jd, d * jd)

\* A backoff that grants one retry too many.
BackoffGrantedOneMore(attempts, maxRetries) == ~(attempts > maxRetries + 1)

\* A backoff that grants one retry too few.
BackoffGrantedOneLess(attempts, maxRetries) == ~(attempts >= maxRetries)

\* backoff returns false, without sleeping, when attempts > maxRetries.
BackoffGranted(attempts, maxRetries) == ~(attempts > maxRetries)

------------------------------------------------------------------------------
(* DoWithRetryFunc.                                                        *)

\* No call in progress.
IdleDo ==
    [pc |-> "idle", req |-> NoReq, retryFunc |-> FALSE, attempts |-> 1,
     buf |-> << >>, wire |-> << >>, hist |-> << >>, sends |-> 0, sleeps |-> 0,
     delay |-> Ratio(0, 1), logged |-> FALSE, predCalls |-> 0,
     ret |-> Ret(NilObj, NilResp, NoErr)]

\* Entry of DoWithRetryFunc(req, retryFunc): attempts := 1. req.Body is the
\* buffer MakeRestRequest built, read by the transport as it writes the request.
StartDo(req, retryFunc) ==
    [IdleDo EXCEPT !.pc = "loop", !.req = req, !.retryFunc = retryFunc,
                   !.buf = req.body]

\* Version texts the model uses.
V10 == <<"1", ".", "0">>

V12 == <<"1", ".", "2">>

V201 == <<"2", ".", "0", ".", "1">>

Unknown == <<"unknown">>

\* What the server may answer to a request.
ResponseBodies(req) ==
    IF req.path = LoginPathND \/ req.path = LoginPathMSO
    THEN {Garbage, TokenDoc(Absent), TokenDoc(Str(NoText)),
          TokenDoc(Str(<<"{", "}">>)), TokenDoc(Str(<<"a">>)), TokenDoc(Str(<<"b">>))}
    ELSE IF IsPath(req.path, LoginDomainsPath)
    THEN {Garbage, ErrorDoc, Doc("A"),
          DomainsDoc(<< >>),
          DomainsDoc(<<[name |-> Str(<<"d">>), id |-> Str(<<"1">>)]>>),
          DomainsDoc(<<[name |-> Str(<<"D">>), id |-> Str(<<"2">>)],
                       [name |-> Str(<<"d">>), id |-> Str(<<"3">>)],
                       [name |-> Str(<<"d">>), id |-> Str(<<"4">>)]>>)}
    ELSE IF IsPath(req.path, VersionPath)
    THEN {Garbage, ErrorDoc, VersionDoc(Absent), VersionDoc(Str(NoText)),
          VersionDoc(Str(V10)), VersionDoc(Str(V201)), VersionDoc(Str(Unknown))}
    ELSE {Garbage, Doc("A"), Doc("B")}

IsRetryStatus(status) ==
    status = StatusTooManyRequests \/ status = StatusServiceUnavailable

Is2xx(status) == status >= StatusOKLow /\ status < StatusOKHigh

\* The outcome of one c.httpClient.Do(req): a transport error (the request body
\* written or not), or a response; with what rand.Float64() and the retry
\* function would return. Only a 2xx body is ever decoded, and only a given
\* retry function is ever asked, so the others are not varied.
Outcomes(req, retryFunc) ==
    {[kind |-> "err", bodyRead |-> b, status |-> 0, body |-> Garbage,
      readErr |-> FALSE, pred |-> FALSE, rand |-> r] :
        b \in BOOLEAN, r \in 0..RandSteps}
    \cup
    UNION {
      {[kind |-> "resp", bodyRead |-> TRUE, status |-> s, body |-> b,
        readErr |-> e, pred |-> p, rand |-> r] :
          b \in (IF Is2xx(s) THEN ResponseBodies(req) ELSE {Garbage}),
          e \in BOOLEAN,
          p \in (IF retryFunc THEN BOOLEAN ELSE {FALSE}),
          r \in 0..RandSteps} :
        s \in {StatusOKLow, StatusNoContent, StatusOKHigh, 404,
               StatusTooManyRequests, StatusServiceUnavailable}}

\* The send of one attempt: the transport writes what is left in the body
\* buffer and leaves it drained; the payloads are logged unless suppressed.
Send(cl, f, o) ==
    LET written == f.req.body # << >> /\ (o.kind = "resp" \/ o.bodyRead)
    IN  [f EXCEPT !.sends = @ + 1,
                  !.logged = @ \/ ~cl.skipLoggingPayload,
                  !.wire = IF written THEN Append(@, [n |-> f.attempts, bytes |-> f.buf])
                           ELSE @,
                  !.buf = IF written THEN << >> ELSE @]

\* A loop in which a transport error is retried without counting the attempt.
RetryOrReturnUncounted(cl, f, o, ret) ==
    IF o.kind = "err" /\ f.sleeps <= cl.maxRetries
    THEN [f EXCEPT !.sleeps = @ + 1,
                   !.delay = BackoffDelay(cl, f.attempts, o.rand)]
    ELSE IF ~(f.attempts > cl.maxRetries)
    THEN [f EXCEPT !.sleeps = @ + 1,
                   !.delay = BackoffDelay(cl, f.attempts, o.rand),
                   !.attempts = @ + 1]
    ELSE [f EXCEPT !.pc = "done", !.ret = ret]

\* if ok := c.backoff(attempts); !ok { return ... } else { continue }
RetryOrReturn(cl, f, o, ret) ==
    IF BackoffGranted(f.attempts, cl.maxRetries)
    THEN [f EXCEPT !.sleeps = @ + 1,
                   !.delay = BackoffDelay(cl, f.attempts, o.rand),
                   !.attempts = @ + 1]
    ELSE [f EXCEPT !.pc = "done", !.ret = ret]

Return(f, ret) == [f EXCEPT !.pc = "done", !.ret = ret]

\* A loop that asks the retry function about undecodable bodies too.
ConsultsUndecoded(retryFunc, ok2xx, parseErr) == retryFunc /\ ok2xx

\* retryFunc(obj) is evaluated: in the 2xx branch, after ParseJSON succeeded,
\* when a retry function was given (line 800).
Consults(retryFunc, ok2xx, parseErr) == ok2xx /\ ~parseErr /\ retryFunc

\* One iteration of the for loop of DoWithRetryFunc.
Iterate(cl, f0, o) ==
    LET parsed == ParseJSON(o.body)
        ok2xx == o.kind = "resp" /\ Is2xx(o.status) /\ o.status # StatusNoContent
        asked == Consults(f0.retryFunc, ok2xx, parsed.err)
        said  == asked /\ o.pred
        s  == Send(cl, f0, o)
        f  == [s EXCEPT !.hist = Append(@, [status |-> o.status,
                                            parsed |-> ok2xx /\ ~parsed.err,
                                            obj |-> IF ok2xx THEN parsed.obj ELSE NilObj,
                                            asked |-> asked, said |-> said]),
                        !.predCalls = IF asked THEN @ + 1 ELSE @]
    IN  IF o.kind = "err"
          THEN RetryOrReturn(cl, f, o, Ret(NilObj, NilResp, TransportErr))
        ELSE IF o.status = StatusNoContent
          THEN Return(f, Ret(NilObj, NilResp, NoErr))
        ELSE IF ok2xx /\ ~parsed.err /\ ~said
          THEN Return(f, Ret(parsed.obj, o.status, NoErr))
        ELSE IF ok2xx \/ IsRetryStatus(o.status)
          THEN RetryOrReturn(cl, f, o,
                   Ret(IF ok2xx THEN parsed.obj ELSE NilObj, o.status,
                       StatusErr(o.status, f.attempts)))
        ELSE Return(f, Ret(NilObj, o.status,
                        \* err was last assigned by ioutil.ReadAll
                        IF o.readErr THEN ReadErr ELSE NoErr))

------------------------------------------------------------------------------
(* The client as constructed.                                              *)

NoAuth == [set |-> FALSE, Token |-> NoText, Expiry |-> 0]

\* url.Parse fails on this one.
BadUrl == <<":", "bad">>

\* &Client{BaseURL: bUrl, username: username, httpClient: ...}: every other
\* field has its zero value.
ZeroClient(clientUrl, username) ==
    [BaseURL |-> Parse(clientUrl).url, username |-> username, password |-> NoText,
     Mutex |-> 0,
     platform |-> "", domain |-> NoText, version |-> NoText,
     skipLoggingPayload |-> FALSE, maxRetries |-> 0,
     backoffMinDelay |-> 0, backoffMaxDelay |-> 0,
     backoffDelayFactor |-> Ratio(0, 1), AuthToken |-> NoAuth]

\* An Option sets one field of the client.
Option(field, value) == [field |-> field, value |-> value]

RECURSIVE ApplyOptions(_, _)
\* for _, option := range options { option(client) }
ApplyOptions(cl, options) ==
    IF options = << >> THEN cl
    ELSE ApplyOptions([cl EXCEPT ![Head(options).field] = Head(options).value],
                      Tail(options))

\* initClient, when the URL parses.
initClient(clientUrl, username, options) ==
    ApplyOptions(ZeroClient(clientUrl, username), options)

GoodUrl == <<"https", ":", "/", "/", "mso">>

OtherUrl == <<"https", ":", "/", "/", "other">>

NewClient(platform, domain, password, skip, retries, minD, maxD, factor) ==
    initClient(GoodUrl, <<"u">>,
        <<Option("platform", platform), Option("domain", domain),
          Option("password", password), Option("skipLoggingPayload", skip),
          Option("maxRetries", retries), Option("backoffMinDelay", minD),
          Option("backoffMaxDelay", maxD), Option("backoffDelayFactor", factor)>>)

\* The retry and backoff options of the clients of the model: every retry
\* count with the default backoff, and every backoff with one retry. The
\* backoff options are <<min, max, factor>>, 0 for an option not given.
RetryConfigs ==
    {<<r, <<0, 0, Ratio(0, 1)>> >> : r \in -1..MaxRetriesBound}
    \cup {<<1, b>> : b \in {<<0, 0, Ratio(0, 1)>>, <<2, 5, Ratio(3, 2)>>,
                            <<70, 0, Ratio(0, 1)>>, <<0, 0, Ratio(1, 2)>>}}

------------------------------------------------------------------------------
(* Authenticate and GetDomainId.                                           *)

DefaultAuth == <<"DefaultAuth">>

NoLoginBody == [shape |-> "", username |-> NoText, password |-> NoText,
                domainKey |-> "", domainVal |-> NoText]

\* fmt.Sprintf(authPayload, username, password) is JSON unless a credential
\* holds a quote.
PayloadParses(username, password) ==
    /\ \A i \in 1..Len(username) : username[i] # Q
    /\ \A i \in 1..Len(password) : password[i] # Q

\* msoAuthPayload or ndAuthPayload, filled in.
LoginBody(cl) ==
    [NoLoginBody EXCEPT !.shape = IF cl.platform = "nd" THEN "nd" ELSE "mso",
                        !.username = cl.username, !.password = cl.password]

\* A Set that leaves the body as it is.
SetDomainNot(body, key, value) == body

\* body.Set(value, key)
SetDomain(body, key, value) == [body EXCEPT !.domainKey = key, !.domainVal = value]

\* No Authenticate call in progress. before and lastLogin are history: the
\* token as the call found it, and the token of the last login that succeeded;
\* so are lookups, lookupRet and logins: the requests the domain lookup of the
\* call sent, what its c.Do returned, and the requests the login sent.
NoAuthFrame ==
    [pc |-> "idle", ret |-> "none", body |-> NoLoginBody, before |-> NoAuth,
     lastLogin |-> [set |-> FALSE, token |-> NoText],
     lookups |-> 0, lookupRet |-> Ret(NilObj, NilResp, NoErr), logins |-> 0]

\* CheckForErrors: an error document is an error.
CheckForErrors(obj) == obj.isErr

RECURSIVE FindDomainLast(_, _, _)
\* A loop that goes on after a match and returns the last one.
FindDomainLast(list, i, domain) ==
    IF i > Len(list) THEN [err |-> TRUE, id |-> NoText]
    ELSE IF ~FindDomainLast(list, i + 1, domain).err
         THEN FindDomainLast(list, i + 1, domain)
         ELSE IF StripQuotes(ContainerString(list[i].name)) = domain
              THEN [err |-> FALSE, id |-> StripQuotes(ContainerString(list[i].id))]
              ELSE [err |-> TRUE, id |-> NoText]

RECURSIVE FindDomain(_, _, _)
\* The loop of GetDomainId over the domains array, from index i.
FindDomain(list, i, domain) ==
    IF i > Len(list) THEN [err |-> TRUE, id |-> NoText]
    ELSE IF StripQuotes(ContainerString(list[i].name)) = domain
         THEN [err |-> FALSE, id |-> StripQuotes(ContainerString(list[i].id))]
         ELSE FindDomain(list, i + 1, domain)

\* A GetDomainId that never fails.
GetDomainIdResultLenient(ret, domain) == [err |-> FALSE, id |-> NoText]

\* GetDomainId, after c.Do(req) returned ret.
GetDomainIdResult(ret, domain) ==
    IF ret.err # NoErr THEN [err |-> TRUE, id |-> NoText]
    ELSE IF CheckForErrors(ret.obj) THEN [err |-> TRUE, id |-> NoText]
    ELSE IF ~ret.obj.isArray THEN [err |-> TRUE, id |-> NoText]
    ELSE FindDomain(ret.obj.domains, 1, domain)

\* token := models.StripQuotes(obj.S("token").String())
TokenOf(obj) == StripQuotes(ContainerString(obj.token))

\* A check that lets the "{}" of a missing token through.
TokenInvalidEmptyOnly(token) == token = NoText

\* if token == "" || token == "{}"
TokenInvalid(token) == token = NoText \/ token = <<"{", "}">>

\* Authenticate returns an error after c.Do(req) returned ret.
LoginFails(ret) ==
    \/ ret.err # NoErr
    \/ ret.obj = NilObj
    \/ TokenInvalid(TokenOf(ret.obj))

\* Auth.CalculateExpiry(refreshTime): now + refreshTime.
CalculateExpiry(t, refreshTime) == t + refreshTime

\* An Authenticate that stores the token before it validates it.
AuthTokenAfterLoginEarly(old, ret, t) ==
    IF ret.err # NoErr \/ ret.obj = NilObj THEN old
    ELSE [set |-> TRUE, Token |-> stripQuotes(TokenOf(ret.obj)),
          Expiry |-> CalculateExpiry(t, RefreshTime)]

\* c.AuthToken once Authenticate has handled the login response.
AuthTokenAfterLogin(old, ret, t) ==
    IF LoginFails(ret) THEN old
    ELSE [set |-> TRUE, Token |-> stripQuotes(TokenOf(ret.obj)),
          Expiry |-> CalculateExpiry(t, RefreshTime)]

------------------------------------------------------------------------------
(* Versions (package go-version), GetVersion and CompareVersion.           *)

Digits == <<"0", "1", "2", "3", "4", "5", "6", "7", "8", "9">>

Letters == <<"a", "b", "x">>

IsDigit(ch) == \E k \in 1..Len(Digits) : Digits[k] = ch

DigitOf(ch) == (CHOOSE k \in 1..Len(Digits) : Digits[k] = ch) - 1

\* The place of a character in the order of the strings: digits, then letters.
RankOf(ch) ==
    IF IsDigit(ch) THEN DigitOf(ch)
    ELSE Len(Digits) + (CHOOSE k \in 1..Len(Letters) : Letters[k] = ch)

RECURSIVE ReadNum(_, _, _)
\* The decimal number that starts at t[i], and the index after it.
ReadNum(t, i, acc) ==
    IF i <= Len(t) /\ IsDigit(t[i])
    THEN ReadNum(t, i + 1, acc * 10 + DigitOf(t[i]))
    ELSE [val |-> acc, next |-> i]

RECURSIVE ReadSegments(_, _, _)
\* The numbers separated by dots that start at t[i].
ReadSegments(t, i, segs) ==
    IF ~(i <= Len(t) /\ IsDigit(t[i]))
    THEN [ok |-> FALSE, segs |-> segs, next |-> i]
    ELSE LET n == ReadNum(t, i, 0)
             more == n.next < Len(t) /\ t[n.next] = "." /\ IsDigit(t[n.next + 1])
         IN  IF more THEN ReadSegments(t, n.next + 1, Append(segs, n.val))
             ELSE [ok |-> TRUE, segs |-> Append(segs, n.val), next |-> n.next]

\* version.NewVersion: an optional v, numbers separated by dots, an optional
\* prerelease of letters and digits after an optional dash.
NewVersion(text) ==
    LET t == IF HasPrefix(text, "v") THEN Tail(text) ELSE text
        r == ReadSegments(t, 1, << >>)
        rest == SubSeq(t, r.next, Len(t))
        pre == IF HasPrefix(rest, "-") THEN Tail(rest) ELSE rest
        preOk == \/ rest = << >>
                 \/ /\ pre # << >>
                    /\ \A k \in 1..Len(pre) :
                          IsDigit(pre[k]) \/ \E l \in 1..Len(Letters) : Letters[l] = pre[k]
                    /\ (HasPrefix(rest, "-") \/ ~IsDigit(pre[1]))
    IN  IF r.ok /\ preOk
        THEN [err |-> FALSE, \* at least three segments: 1.0 is 1.0.0
              segments |-> IF Len(r.segs) = 1 THEN r.segs \o <<0, 0>>
                           ELSE IF Len(r.segs) = 2 THEN r.segs \o <<0>>
                           ELSE r.segs,
              pre |-> pre]
        ELSE [err |-> TRUE, segments |-> << >>, pre |-> NoText]

Segment(segs, k) == IF k <= Len(segs) THEN segs[k] ELSE 0

RECURSIVE CompareSegments(_, _, _)
CompareSegments(a, b, k) ==
    IF k > Len(a) /\ k > Len(b) THEN 0
    ELSE IF Segment(a, k) < Segment(b, k) THEN -1
    ELSE IF Segment(a, k) > Segment(b, k) THEN 1
    ELSE CompareSegments(a, b, k + 1)

AllDigits(p) == \A k \in 1..Len(p) : IsDigit(p[k])

RECURSIVE CompareStrings(_, _, _)
\* The order of two strings, character by character from index k.
CompareStrings(p, q, k) ==
    IF k > Len(p) /\ k > Len(q) THEN 0
    ELSE IF k > Len(p) THEN -1
    ELSE IF k > Len(q) THEN 1
    ELSE IF RankOf(p[k]) < RankOf(q[k]) THEN -1
    ELSE IF RankOf(p[k]) > RankOf(q[k]) THEN 1
    ELSE CompareStrings(p, q, k + 1)

\* A release is above its prereleases; two numbers compare as numbers, a
\* number is below a word, two words compare as strings.
ComparePrereleases(p, q) ==
    IF p = q THEN 0
    ELSE IF p = NoText THEN 1
    ELSE IF q = NoText THEN -1
    ELSE IF AllDigits(p) /\ AllDigits(q)
         THEN (IF ReadNum(p, 1, 0).val < ReadNum(q, 1, 0).val THEN -1
               ELSE IF ReadNum(p, 1, 0).val > ReadNum(q, 1, 0).val THEN 1
               ELSE 0)
    ELSE IF AllDigits(p) THEN -1
    ELSE IF AllDigits(q) THEN 1
    ELSE CompareStrings(p, q, 1)

\* Version.Compare: v against other.
Compare(v, other) ==
    IF CompareSegments(v.segments, other.segments, 1) # 0
    THEN CompareSegments(v.segments, other.segments, 1)
    ELSE ComparePrereleases(v.pre, other.pre)

\* The version of a platform-version document, as GetVersion reads it.
VersionOf(obj) == stripQuotes(ContainerString(obj.version))

\* GetVersion, after c.Do(req) returned ret: the error and the version, which
\* is cached when there is no error. A 204 leaves no payload to read.
GetVersionResult(ret) ==
    IF ret.err # NoErr THEN [err |-> "do", version |-> Unknown]
    ELSE IF ret.obj = NilObj THEN [err |-> "empty", version |-> Unknown]
    ELSE IF CheckForErrors(ret.obj) THEN [err |-> "check", version |-> Unknown]
    ELSE IF VersionOf(ret.obj) = NoText THEN [err |-> "identify", version |-> Unknown]
    ELSE [err |-> "nil", version |-> VersionOf(ret.obj)]

\* c.version once GetVersion has handled the response.
VersionAfterGet(old, ret) ==
    IF GetVersionResult(ret).err = "nil" THEN GetVersionResult(ret).version ELSE old

\* A CompareVersion that fetches the version on every call.
NeedsGetVersionAlways(version) == TRUE

\* if c.version == "" { c.GetVersion() }
NeedsGetVersion(version) == version = NoText

\* A CompareVersion that compares the cached version against the target.
CompareVersionResultSwapped(cached, v) ==
    IF cached = Unknown THEN [err |-> "retrieve", cmp |-> 0]
    ELSE IF NewVersion(cached).err THEN [err |-> "parse retrieved", cmp |-> 0]
    ELSE IF NewVersion(v).err THEN [err |-> "parse", cmp |-> 0]
    ELSE [err |-> "nil", cmp |-> Compare(NewVersion(cached), NewVersion(v))]

\* CompareVersion from line 720 on, with c.version = cached.
CompareVersionResult(cached, v) ==
    IF cached = Unknown THEN [err |-> "retrieve", cmp |-> 0]
    ELSE IF NewVersion(cached).err THEN [err |-> "parse retrieved", cmp |-> 0]
    ELSE IF NewVersion(v).err THEN [err |-> "parse", cmp |-> 0]
    ELSE [err |-> "nil", cmp |-> Compare(NewVersion(v), NewVersion(cached))]

------------------------------------------------------------------------------
(* GetClient.                                                              *)

Callers == 1..NumCallers

NilClient == 0

\* What a caller passes: the URL, the username and the options.
ArgSets ==
    {[url |-> GoodUrl, username |-> <<"u">>, options |-> << >>],
     [url |-> OtherUrl, username |-> <<"v">>,
      options |-> <<Option("maxRetries", 1), Option("platform", "nd"),
                    Option("maxRetries", 2)>>],
     [url |-> BadUrl, username |-> <<"u">>, options |-> << >>]}

\* A goroutine that is not in GetClient. seen is the pointer it last read
\* from or wrote to clientImpl.
IdleCaller == [pc |-> "idle", args |-> [url |-> "", username |-> NoText, options |-> << >>], seen |-> NilClient, result |-> NilClient]

\* A GetClient that builds a client on every call.
NeedsInitAlways(p) == TRUE

\* clientImpl == nil
NeedsInit(p) == p = NilClient

\* The state of the singleton where nobody calls GetClient.
NoGetClient ==
    /\ clientImpl = NilClient
    /\ heap = << >>
    /\ callers = [i \in Callers |-> IdleCaller]
    /\ exited = FALSE

------------------------------------------------------------------------------
(* Frames of the other calls.                                              *)

\* No GetDomainId, GetVersion, CompareVersion or request call in progress.
\* atEntry, sends and ret are history: the cached version as the call found
\* it, the requests the call has sent and what its c.Do returned; err, text
\* and cmp are what the call returns.
IdleCall ==
    [pc |-> "idle", op |-> "", arg |-> NoText, atEntry |-> NoText, sends |-> 0,
     logged |-> FALSE, ret |-> Ret(NilObj, NilResp, NoErr),
     err |-> "none", text |-> NoText, cmp |-> 0]

\* A goroutine that is not in Authenticate. do is the frame of its c.Do and
\* token its local variable; wrote is history: the fields of c.AuthToken it
\* has written in this call.
IdleGo ==
    [pc |-> "idle", do |-> IdleDo, ret |-> "none", token |-> NoText,
     wrote |-> {}]

\* schema.ResourceData of the site service graph resource: the ID and the
\* four attributes that name the object (lines 81-104).
NoData ==
    [id |-> NoText, schema_id |-> NoText, site_id |-> NoText,
     template_name |-> NoText, service_graph_name |-> NoText]

\* No resource operation has run: graphs is the set of site service graphs
\* on the server; op, arg, before, found and err are history: the last
\* operation, the ID or object it was given, the ID it started with, whether
\* it found the site service graph, and what it returned.
NoResource ==
    [d |-> NoData, graphs |-> {}, op |-> "", arg |-> NoText, before |-> NoText,
     found |-> FALSE, err |-> "none"]

\* The state where none of these calls is in progress.
NoCalls ==
    /\ call = IdleCall
    /\ gos = [i \in Callers |-> IdleGo]
    /\ tf = NoResource

------------------------------------------------------------------------------
(* The request executor on its own: a caller builds a request and runs it. *)

Methods == {"GET", "POST"}

Init ==
    /\ \E rc \in RetryConfigs :
          c = NewClient("mso", NoText, <<"p">>, FALSE, rc[1], rc[2][1], rc[2][2], rc[2][3])
    /\ now = 0
    /\ do = IdleDo
    /\ auth = NoAuthFrame
    /\ NoGetClient
    /\ NoCalls
    /\ built = c

\* A caller: MakeRestRequest, then DoWithRetryFunc.
Request ==
    /\ do.pc = "idle"
    /\ \E m \in Methods, b \in {<<"{", "}">>, <<"{", "x", "}">>}, rf \in BOOLEAN :
          LET r == MakeRestRequest(c, m, SchemasPath, b, FALSE)
          IN  /\ ~r.err
              /\ do' = StartDo(r.req, rf)
    /\ UNCHANGED <<c, now, auth, gvars, ovars>>

DoAttempt ==
    /\ do.pc = "loop"
    /\ \E o \in Outcomes(do.req, do.retryFunc) : do' = Iterate(c, do, o)
    /\ UNCHANGED <<c, now, auth, gvars, ovars>>

\* The caller takes what DoWithRetryFunc returned.
Finish ==
    /\ do.pc = "done"
    /\ do' = IdleDo
    /\ UNCHANGED <<c, now, auth, gvars, ovars>>

Next == Request \/ DoAttempt \/ Finish

Spec == Init /\ [][Next]_vars

------------------------------------------------------------------------------
(* Authenticate, called again and again on one client.                     *)

AuthInit ==
    /\ \E p \in {"mso", "nd"}, d \in {NoText, <<"d">>}, s \in BOOLEAN,
          r \in {0, 1}, pw \in {<<"p">>, <<Q>>} :
          /\ pw = <<Q>> => (r = 0 /\ ~s)
          /\ c = NewClient(p, d, pw, s, r, 0, 0, Ratio(0, 1))
    /\ now = 0
    /\ do = IdleDo
    /\ auth = NoAuthFrame
    /\ NoGetClient
    /\ NoCalls
    /\ built = c

\* Authenticate returns: err is "ok" for nil, or names the error.
AuthReturns(frame, err) == [frame EXCEPT !.pc = "returned", !.ret = err]

\* Lines 623-630: suppress the payload logging, build the login POST and
\* hand it to Do.
StartLogin(cl, frame, body) ==
    LET path == IF cl.platform = "nd" THEN LoginPathND ELSE LoginPathMSO
        r == MakeRestRequest(cl, "POST", path, body, FALSE)
    IN  /\ c' = [cl EXCEPT !.skipLoggingPayload = TRUE]
        /\ IF r.err
           THEN /\ auth' = AuthReturns(frame, "request")
                /\ do' = IdleDo
           ELSE /\ auth' = [frame EXCEPT !.pc = "login", !.body = body]
                /\ do' = StartDo(r.req, FALSE)

\* Authenticate up to its first c.Do: the nd default domain, the login
\* payload, and either the domain lookup (classic, a domain given) or the
\* login itself.
AuthBegin ==
    /\ auth.pc = "idle"
    /\ do.pc = "idle"
    /\ LET c1 == IF c.platform = "nd" /\ c.domain = NoText
                 THEN [c EXCEPT !.domain = DefaultAuth] ELSE c
           frame == [auth EXCEPT !.ret = "none", !.before = c.AuthToken]
           body == LoginBody(c1)
       IN  IF ~PayloadParses(c1.username, c1.password)
           THEN /\ c' = c1
                /\ auth' = AuthReturns(frame, "payload")
                /\ UNCHANGED do
           ELSE IF c1.domain # NoText /\ c1.platform = "nd"
           THEN StartLogin(c1, frame, SetDomain(body, "domain", c1.domain))
           ELSE IF c1.domain # NoText
           THEN LET r == MakeRestRequest(c1, "GET", LoginDomainsPath, NoLoginBody, FALSE)
                IN  /\ c' = c1
                    /\ IF r.err
                       THEN /\ auth' = AuthReturns(frame, "lookup")
                            /\ UNCHANGED do
                       ELSE /\ auth' = [frame EXCEPT !.pc = "lookup", !.body = body]
                            /\ do' = StartDo(r.req, FALSE)
           ELSE StartLogin(c1, frame, body)
    /\ UNCHANGED <<now, gvars, ovars>>

\* GetDomainId once its c.Do returned, and Authenticate on to the login.
AuthLookupDone ==
    /\ auth.pc = "lookup"
    /\ do.pc = "done"
    /\ LET r == GetDomainIdResult(do.ret, c.domain)
           frame == [auth EXCEPT !.lookups = do.sends, !.lookupRet = do.ret]
       IN  IF r.err
           THEN /\ auth' = AuthReturns(frame, "lookup")
                /\ do' = IdleDo
                /\ UNCHANGED c
           ELSE StartLogin(c, frame, SetDomain(auth.body, "domainId", r.id))
    /\ UNCHANGED <<now, gvars, ovars>>

\* The error Authenticate returns for what the login's c.Do returned.
LoginError(ret) ==
    IF ret.err # NoErr THEN "do"
    ELSE IF ret.obj = NilObj THEN "empty"
    ELSE IF TokenInvalid(TokenOf(ret.obj)) THEN "invalid"
    ELSE "ok"

\* Authenticate once the login's c.Do returned (lines 631-653).
AuthLoginDone ==
    /\ auth.pc = "login"
    /\ do.pc = "done"
    /\ c' = [c EXCEPT !.skipLoggingPayload = FALSE,
                      !.AuthToken = AuthTokenAfterLogin(@, do.ret, now)]
    /\ auth' = [AuthReturns(auth, LoginError(do.ret)) EXCEPT
                   !.logins = do.sends,
                   !.lastLogin = IF LoginError(do.ret) = "ok"
                                 THEN [set |-> TRUE, token |-> do.ret.obj.token.s]
                                 ELSE @]
    /\ do' = IdleDo
    /\ UNCHANGED <<now, gvars, ovars>>

\* The caller takes what Authenticate returned.
AuthReturn ==
    /\ auth.pc = "returned"
    /\ auth' = [NoAuthFrame EXCEPT !.lastLogin = auth.lastLogin]
    /\ UNCHANGED <<c, now, do, gvars, ovars>>

\* Time passes between two calls.
Tick ==
    /\ auth.pc = "idle"
    /\ now < MaxTime
    /\ now' = now + 1
    /\ UNCHANGED <<c, do, auth, gvars, ovars>>

AuthNext ==
    AuthBegin \/ DoAttempt \/ AuthLookupDone \/ AuthLoginDone \/ AuthReturn \/ Tick

SpecAuth == AuthInit /\ [][AuthNext]_vars

------------------------------------------------------------------------------
(* GetClient, called by several goroutines.                                *)

GetInit ==
    /\ c = ZeroClient(GoodUrl, <<"u">>)
    /\ now = 0
    /\ do = IdleDo
    /\ auth = NoAuthFrame
    /\ NoGetClient
    /\ NoCalls
    /\ built = c

\* A goroutine calls GetClient(clientUrl, username, options...).
GetClientCall(i) ==
    /\ ~exited
    /\ callers[i].pc \in {"idle", "done"}
    /\ \E a \in ArgSets :
          callers' = [callers EXCEPT ![i] = [IdleCaller EXCEPT !.pc = "check", !.args = a]]
    /\ UNCHANGED <<c, now, do, auth, clientImpl, heap, exited, ovars>>

\* if clientImpl == nil
GetClientCheck(i) ==
    /\ ~exited
    /\ callers[i].pc = "check"
    /\ callers' = [callers EXCEPT ![i].seen = clientImpl,
                                  ![i].pc = IF NeedsInit(clientImpl) THEN "init"
                                            ELSE "return"]
    /\ UNCHANGED <<c, now, do, auth, clientImpl, heap, exited, ovars>>

\* initClient(clientUrl, username, options...): a new Client, or log.Fatal.
GetClientInit(i) ==
    /\ ~exited
    /\ callers[i].pc = "init"
    /\ IF ~Parse(callers[i].args.url).err
       THEN /\ heap' = Append(heap, initClient(callers[i].args.url,
                                               callers[i].args.username,
                                               callers[i].args.options))
            /\ callers' = [callers EXCEPT ![i].seen = Len(heap) + 1,
                                          ![i].pc = "store"]
            /\ UNCHANGED exited
       ELSE /\ exited' = TRUE
            /\ UNCHANGED <<heap, callers>>
    /\ UNCHANGED <<c, now, do, auth, clientImpl, ovars>>

\* clientImpl = initClient(...)
GetClientStore(i) ==
    /\ ~exited
    /\ callers[i].pc = "store"
    /\ clientImpl' = callers[i].seen
    /\ callers' = [callers EXCEPT ![i].pc = "return"]
    /\ UNCHANGED <<c, now, do, auth, heap, exited, ovars>>

\* return clientImpl: the unsynchronised read yields the pointer as it is
\* now, or the one this goroutine last read or wrote.
GetClientReturn(i) ==
    /\ ~exited
    /\ callers[i].pc = "return"
    /\ \E r \in {clientImpl, callers[i].seen} :
          callers' = [callers EXCEPT ![i].result = r, ![i].pc = "done"]
    /\ UNCHANGED <<c, now, do, auth, clientImpl, heap, exited, ovars>>

GetNext ==
    \E i \in Callers :
        \/ GetClientCall(i)
        \/ GetClientCheck(i)
        \/ GetClientInit(i)
        \/ GetClientStore(i)
        \/ GetClientReturn(i)

SpecGetClient == GetInit /\ [][GetNext]_vars

------------------------------------------------------------------------------
(* GetClient, called again and again by one goroutine at a time.           *)

\* A call is made when no other call is in progress.
GetSeqCall(i) ==
    /\ \A j \in Callers : callers[j].pc \in {"idle", "done"}
    /\ GetClientCall(i)

GetSeqNext ==
    \E i \in Callers :
        \/ GetSeqCall(i)
        \/ GetClientCheck(i)
        \/ GetClientInit(i)
        \/ GetClientStore(i)
        \/ GetClientReturn(i)

SpecGetClientSeq == GetInit /\ [][GetSeqNext]_vars

------------------------------------------------------------------------------
(* Authenticate, called by several goroutines on the shared client. The     *)
(* clients here take no domain lookup: no login domain is configured.       *)
(* Each action is one stretch of Authenticate between two accesses of the   *)
(* shared fields that another goroutine can interleave with.                *)

ConcInit ==
    /\ \E p \in {"mso", "nd"}, s \in BOOLEAN :
          c = NewClient(p, NoText, <<"p">>, s, 0, 0, 0, Ratio(0, 1))
    /\ now = 0
    /\ do = IdleDo
    /\ auth = NoAuthFrame
    /\ NoGetClient
    /\ NoCalls
    /\ built = c

\* Lines 597-630: the nd default domain, the login payload, the suppression of
\* the payload logging, the login POST handed to Do.
GoAuthBegin(i) ==
    /\ gos[i].pc = "idle"
    /\ LET c1 == IF c.platform = "nd" /\ c.domain = NoText
                 THEN [c EXCEPT !.domain = DefaultAuth] ELSE c
           body == IF c1.domain # NoText
                   THEN SetDomain(LoginBody(c1), "domain", c1.domain)
                   ELSE LoginBody(c1)
           path == IF c1.platform = "nd" THEN LoginPathND ELSE LoginPathMSO
           r == MakeRestRequest(c1, "POST", path, body, FALSE)
       IN  /\ c1.domain = NoText \/ c1.platform = "nd"
           /\ IF ~PayloadParses(c1.username, c1.password)
              THEN /\ c' = c1
                   /\ gos' = [gos EXCEPT ![i].pc = "returned", ![i].ret = "payload"]
              ELSE /\ c' = [c1 EXCEPT !.skipLoggingPayload = TRUE]
                   /\ IF r.err
                      THEN gos' = [gos EXCEPT ![i].pc = "returned",
                                              ![i].ret = "request"]
                      ELSE gos' = [gos EXCEPT ![i].pc = "do",
                                              ![i].do = StartDo(r.req, FALSE)]
    /\ UNCHANGED <<now, do, auth, gvars, call, built, tf>>

\* One iteration of the loop of the goroutine's DoWithRetryFunc, with the
\* client as it is at that moment.
GoAttempt(i) ==
    /\ gos[i].pc = "do"
    /\ gos[i].do.pc = "loop"
    /\ \E o \in Outcomes(gos[i].do.req, gos[i].do.retryFunc) :
          gos' = [gos EXCEPT ![i].do = Iterate(c, gos[i].do, o)]
    /\ UNCHANGED <<c, now, do, auth, gvars, call, built, tf>>

\* Lines 630-645: Do has returned; the payload logging is switched on, the
\* response and the token are checked.
GoAuthDone(i) ==
    /\ gos[i].pc = "do"
    /\ gos[i].do.pc = "done"
    /\ c' = [c EXCEPT !.skipLoggingPayload = FALSE]
    /\ LET err == LoginError(gos[i].do.ret)
       IN  IF err = "ok"
           THEN gos' = [gos EXCEPT ![i].pc = "token",
                                   ![i].token = TokenOf(gos[i].do.ret.obj)]
           ELSE gos' = [gos EXCEPT ![i].pc = "returned", ![i].ret = err]
    /\ UNCHANGED <<now, do, auth, gvars, call, built, tf>>

\* Lines 647-650: c.AuthToken.Token = stripQuotes(token), on a new Auth if
\* there is none.
GoWriteToken(i) ==
    /\ gos[i].pc = "token"
    /\ c' = [c EXCEPT !.AuthToken = [@ EXCEPT !.set = TRUE,
                                              !.Token = stripQuotes(gos[i].token)]]
    /\ gos' = [gos EXCEPT ![i].pc = "expiry", ![i].wrote = @ \cup {"Token"}]
    /\ UNCHANGED <<now, do, auth, gvars, call, built, tf>>

\* Line 651: c.AuthToken.CalculateExpiry(1200), and return nil.
GoWriteExpiry(i) ==
    /\ gos[i].pc = "expiry"
    /\ c' = [c EXCEPT !.AuthToken.Expiry = CalculateExpiry(now, RefreshTime)]
    /\ gos' = [gos EXCEPT ![i].pc = "returned", ![i].ret = "ok",
                          ![i].wrote = @ \cup {"Expiry"}]
    /\ UNCHANGED <<now, do, auth, gvars, call, built, tf>>

\* The caller takes what Authenticate returned.
GoAuthReturn(i) ==
    /\ gos[i].pc = "returned"
    /\ gos' = [gos EXCEPT ![i] = IdleGo]
    /\ UNCHANGED <<c, now, do, auth, gvars, call, built, tf>>

ConcNext ==
    \E i \in Callers :
        \/ GoAuthBegin(i)
        \/ GoAttempt(i)
        \/ GoAuthDone(i)
        \/ GoWriteToken(i)
        \/ GoWriteExpiry(i)
        \/ GoAuthReturn(i)

SpecAuthConc == ConcInit /\ [][ConcNext]_vars

------------------------------------------------------------------------------
(* The client in use by one goroutine: Authenticate, GetDomainId,           *)
(* GetVersion, CompareVersion and authenticated requests, one at a time.    *)

ClientInit ==
    /\ \E p \in {"mso", "nd"}, d \in {NoText, <<"d">>}, s \in BOOLEAN,
          v \in {NoText, V12} :
          c = initClient(GoodUrl, <<"u">>,
                         <<Option("platform", p), Option("domain", d),
                           Option("password", <<"p">>),
                           Option("skipLoggingPayload", s), Option("version", v)>>)
    /\ now = 0
    /\ do = IdleDo
    /\ auth = NoAuthFrame
    /\ NoGetClient
    /\ NoCalls
    /\ built = c

\* No operation is in progress on the client.
ClientIdle == auth.pc = "idle" /\ call.pc = "idle" /\ do.pc = "idle"

\* The call returns.
CallReturns(frame, err, text, cmp) ==
    [frame EXCEPT !.pc = "returned", !.err = err, !.text = text, !.cmp = cmp,
                  !.sends = do.sends, !.logged = do.logged, !.ret = do.ret]

ClientAuthBegin == call.pc = "idle" /\ AuthBegin

\* GetDomainId(domain) up to its c.Do.
GetDomainIdCall ==
    /\ ClientIdle
    /\ \E d \in {<<"d">>, <<"D">>, <<"missing">>} :
          LET r == MakeRestRequest(c, "GET", LoginDomainsPath, NoLoginBody, FALSE)
              frame == [IdleCall EXCEPT !.op = "GetDomainId", !.arg = d,
                                        !.atEntry = c.version]
          IN  IF r.err
              THEN /\ call' = CallReturns(frame, "request", NoText, 0)
                   /\ UNCHANGED do
              ELSE /\ call' = [frame EXCEPT !.pc = "do"]
                   /\ do' = StartDo(r.req, FALSE)
    /\ UNCHANGED <<c, now, auth, gvars, gos, built, tf>>

\* GetDomainId once its c.Do returned.
GetDomainIdDone ==
    /\ call.pc = "do"
    /\ call.op = "GetDomainId"
    /\ do.pc = "done"
    /\ LET r == GetDomainIdResult(do.ret, call.arg)
       IN  call' = CallReturns(call, IF r.err THEN "lookup" ELSE "nil", r.id, 0)
    /\ do' = IdleDo
    /\ UNCHANGED <<c, now, auth, gvars, gos, built, tf>>

\* GetVersion up to its c.Do.
GetVersionCall ==
    /\ ClientIdle
    /\ LET r == MakeRestRequest(c, "GET", VersionPath, NoLoginBody, TRUE)
           frame == [IdleCall EXCEPT !.op = "GetVersion", !.atEntry = c.version]
       IN  IF r.err
           THEN /\ call' = CallReturns(frame, "request", Unknown, 0)
                /\ UNCHANGED do
           ELSE /\ call' = [frame EXCEPT !.pc = "do"]
                /\ do' = StartDo(r.req, FALSE)
    /\ UNCHANGED <<c, now, auth, gvars, gos, built, tf>>

\* GetVersion once its c.Do returned.
GetVersionDone ==
    /\ call.pc = "do"
    /\ call.op = "GetVersion"
    /\ do.pc = "done"
    /\ c' = [c EXCEPT !.version = VersionAfterGet(@, do.ret)]
    /\ call' = CallReturns(call, GetVersionResult(do.ret).err,
                           GetVersionResult(do.ret).version, 0)
    /\ do' = IdleDo
    /\ UNCHANGED <<now, auth, gvars, gos, built, tf>>

\* CompareVersion(v): the whole call when a version is cached or the request
\* of GetVersion cannot be built, up to the c.Do of GetVersion otherwise.
CompareVersionCall ==
    /\ ClientIdle
    /\ \E v \in {V10, V12, V201, <<"v", "2", ".", "0", ".", "1">>, <<"2">>,
                <<"1", "0", ".", "0">>, <<"1", ".", "0", "-", "b">>, <<"x">>} :
          LET r == MakeRestRequest(c, "GET", VersionPath, NoLoginBody, TRUE)
              frame == [IdleCall EXCEPT !.op = "CompareVersion", !.arg = v,
                                        !.atEntry = c.version]
              res == CompareVersionResult(c.version, v)
          IN  IF NeedsGetVersion(c.version) /\ ~r.err
              THEN /\ call' = [frame EXCEPT !.pc = "do"]
                   /\ do' = StartDo(r.req, FALSE)
              ELSE /\ call' = CallReturns(frame, res.err, NoText, res.cmp)
                   /\ UNCHANGED do
    /\ UNCHANGED <<c, now, auth, gvars, gos, built, tf>>

\* CompareVersion once the c.Do of its GetVersion returned: the version is
\* cached if GetVersion succeeded, and the comparison follows.
CompareVersionDone ==
    /\ call.pc = "do"
    /\ call.op = "CompareVersion"
    /\ do.pc = "done"
    /\ c' = [c EXCEPT !.version = VersionAfterGet(@, do.ret)]
    /\ LET res == CompareVersionResult(VersionAfterGet(c.version, do.ret), call.arg)
       IN  call' = CallReturns(call, res.err, NoText, res.cmp)
    /\ do' = IdleDo
    /\ UNCHANGED <<now, auth, gvars, gos, built, tf>>

\* A caller of the client: MakeRestRequest with the session token, then
\* DoWithRetryFunc.
RequestCall ==
    /\ ClientIdle
    /\ \E m \in Methods, rf \in BOOLEAN :
          LET r == MakeRestRequest(c, m, SchemasPath, <<"{", "}">>, TRUE)
              frame == [IdleCall EXCEPT !.op = "Request", !.atEntry = c.version]
          IN  IF r.err
              THEN /\ call' = CallReturns(frame, "request", NoText, 0)
                   /\ UNCHANGED do
              ELSE /\ call' = [frame EXCEPT !.pc = "do"]
                   /\ do' = StartDo(r.req, rf)
    /\ UNCHANGED <<c, now, auth, gvars, gos, built, tf>>

\* DoWithRetryFunc returned to the caller.
RequestDone ==
    /\ call.pc = "do"
    /\ call.op = "Request"
    /\ do.pc = "done"
    /\ call' = CallReturns(call, do.ret.err.kind, NoText, 0)
    /\ do' = IdleDo
    /\ UNCHANGED <<c, now, auth, gvars, gos, built, tf>>

\* The caller takes what the call returned.
CallReturn ==
    /\ call.pc = "returned"
    /\ call' = IdleCall
    /\ UNCHANGED <<c, now, do, auth, gvars, gos, built, tf>>

ClientNext ==
    \/ ClientAuthBegin \/ AuthLookupDone \/ AuthLoginDone \/ AuthReturn
    \/ DoAttempt
    \/ GetDomainIdCall \/ GetDomainIdDone
    \/ GetVersionCall \/ GetVersionDone
    \/ CompareVersionCall \/ CompareVersionDone
    \/ RequestCall \/ RequestDone
    \/ CallReturn

SpecClient == ClientInit /\ [][ClientNext]_vars

------------------------------------------------------------------------------
(* The site service graph resource (package mso). The calls it makes on the *)
(* client (GetViaURL, PatchbyID) and the search of the schema document are  *)
(* taken by their outcome.                                                  *)

\* strings.Split(d.Id(), "/").
Split(text) == SplitOn(text, "/")

\* Line 224: the ID Create sets.
CreateId(schemaId, siteId, templateName, graphName) ==
    schemaId \o <<"/", "sites", "/">> \o siteId \o <<"/", "template", "/">>
        \o templateName \o <<"/", "serviceGraphs", "/">> \o graphName

\* Line 185: the ID Import sets.
ImportId(schemaId, templateName, graphName) ==
    schemaId \o <<"/", "templates", "/">> \o templateName
        \o <<"/", "serviceGraphs", "/">> \o graphName

\* The object the attributes of the resource data name.
ObjectOf(d) == <<d.schema_id, d.site_id, d.template_name, d.service_graph_name>>

\* The four d.Set calls of Import and Read.
SetAttributes(d, schemaId, siteId, templateName, graphName) ==
    [d EXCEPT !.schema_id = schemaId, !.site_id = siteId,
              !.template_name = templateName, !.service_graph_name = graphName]

\* What msoClient.GetViaURL returns for the schema: the document, an error
\* that says the schema is not found, or another error.
GetOutcomes == {"ok", "notfound", "error"}

\* getSiteServiceGraphCont finds the site service graph in the document.
SiteGraphFound(graphs, schemaId, siteId, templateName, graphName) ==
    <<schemaId, siteId, templateName, graphName>> \in graphs

\* errorForObjectNotFound: an object that is not found is dropped from the
\* state and is no error; any other error is returned.
errorForObjectNotFound(get, d) ==
    IF get = "notfound" THEN [d |-> [d EXCEPT !.id = NoText], err |-> "none"]
    ELSE [d |-> d, err |-> "get"]

\* resourceMSOSchemaSiteServiceGraphRead.
resourceMSOSchemaSiteServiceGraphRead(d, get, graphs) ==
    LET nodeIdSt == d.id
        found == get = "ok" /\ SiteGraphFound(graphs, d.schema_id, d.site_id,
                                              d.template_name, d.service_graph_name)
    IN  IF get # "ok"
        THEN LET r == errorForObjectNotFound(get, d)
             IN  [d |-> r.d, err |-> r.err, found |-> FALSE]
        ELSE IF ~found
        THEN [d |-> [d EXCEPT !.id = NoText], err |-> "none", found |-> FALSE]
        ELSE [d |-> [SetAttributes(d, d.schema_id, d.site_id, d.template_name,
                                   d.service_graph_name) EXCEPT !.id = nodeIdSt],
              err |-> "none", found |-> TRUE]

\* resourceMSOSchemaSiteServiceGraphImport: the ID has fewer than seven
\* pieces (the index of lines 161-164 is out of range), the GET fails, the
\* graph is not found, or the attributes and the ID are set.
resourceMSOSchemaSiteServiceGraphImport(d, get, graphs) ==
    LET get_attribute == Split(d.id)
    IN  IF Len(get_attribute) < 7
        THEN [d |-> d, err |-> "panic", found |-> FALSE]
        ELSE LET schemaId == get_attribute[1]
                 siteId == get_attribute[3]
                 templateName == get_attribute[5]
                 graphName == get_attribute[7]
             IN  IF get # "ok"
                 THEN [d |-> d, err |-> "get", found |-> FALSE]
                 ELSE IF ~SiteGraphFound(graphs, schemaId, siteId, templateName,
                                         graphName)
                 THEN [d |-> [d EXCEPT !.id = NoText], err |-> "notfound",
                       found |-> FALSE]
                 ELSE [d |-> [SetAttributes(d, schemaId, siteId, templateName,
                                            graphName)
                                EXCEPT !.id = ImportId(schemaId, templateName,
                                                       graphName)],
                       err |-> "none", found |-> TRUE]

\* The names of the model: one schema and one site, two templates, two graphs.
Objects ==
    {<< <<"s">>, <<"1">>, t, g >> : t \in {<<"t">>, <<"u">>}, g \in {<<"g">>, <<"h">>}}

ResourceInit ==
    /\ c = NewClient("mso", NoText, <<"p">>, FALSE, 0, 0, 0, Ratio(0, 1))
    /\ now = 0
    /\ do = IdleDo
    /\ auth = NoAuthFrame
    /\ NoGetClient
    /\ call = IdleCall
    /\ gos = [i \in Callers |-> IdleGo]
    /\ built = c
    /\ \E g \in SUBSET Objects : tf = [NoResource EXCEPT !.graphs = g]

\* The resource is in the state: the last operation left it an ID.
InState == tf.d.id # NoText /\ tf.err = "none"

\* Create on the attributes of the configuration (lines 190-227): the GET of
\* the schema, the template's graph, the PATCH, the ID, and the final Read.
ResourceCreate ==
    /\ \E o \in Objects, get \in {"ok", "error"}, tfound \in BOOLEAN,
          patch \in BOOLEAN, get2 \in GetOutcomes :
          LET d0 == SetAttributes(NoData, o[1], o[2], o[3], o[4])
              d1 == [d0 EXCEPT !.id = CreateId(o[1], o[2], o[3], o[4])]
              graphs1 == tf.graphs \cup {o}
              r == resourceMSOSchemaSiteServiceGraphRead(d1, get2, graphs1)
              frame == [tf EXCEPT !.op = "create", !.arg = CreateId(o[1], o[2], o[3], o[4]),
                                  !.before = NoText]
          IN  IF get # "ok"
              THEN tf' = [frame EXCEPT !.d = d0, !.err = "get", !.found = FALSE]
              ELSE IF ~tfound
              THEN tf' = [frame EXCEPT !.d = d0, !.err = "template", !.found = FALSE]
              ELSE IF ~patch
              THEN tf' = [frame EXCEPT !.d = d0, !.err = "patch", !.found = FALSE]
              ELSE tf' = [frame EXCEPT !.d = r.d, !.err = r.err, !.found = r.found,
                                       !.graphs = graphs1]
    /\ UNCHANGED <<c, now, do, auth, gvars, call, gos, built>>

\* Read on the resource data of the state (lines 229-259).
ResourceRead ==
    /\ InState
    /\ \E get \in GetOutcomes :
          LET r == resourceMSOSchemaSiteServiceGraphRead(tf.d, get, tf.graphs)
          IN  tf' = [tf EXCEPT !.op = "read", !.arg = tf.d.id, !.before = tf.d.id,
                               !.d = r.d, !.err = r.err, !.found = r.found]
    /\ UNCHANGED <<c, now, do, auth, gvars, call, gos, built>>

\* Update (lines 261-299): the GET, the PATCH when the service nodes changed,
\* d.SetId(d.Id()), and the final Read.
ResourceUpdate ==
    /\ InState
    /\ \E get \in {"ok", "error"}, changed \in BOOLEAN, tfound \in BOOLEAN,
          patch \in BOOLEAN, get2 \in GetOutcomes :
          LET r == resourceMSOSchemaSiteServiceGraphRead(tf.d, get2, tf.graphs)
              frame == [tf EXCEPT !.op = "update", !.arg = tf.d.id, !.before = tf.d.id]
          IN  IF get # "ok"
              THEN tf' = [frame EXCEPT !.err = "get", !.found = FALSE]
              ELSE IF changed /\ ~tfound
              THEN tf' = [frame EXCEPT !.err = "template", !.found = FALSE]
              ELSE IF changed /\ ~patch
              THEN tf' = [frame EXCEPT !.err = "patch", !.found = FALSE]
              ELSE tf' = [frame EXCEPT !.d = r.d, !.err = r.err, !.found = r.found]
    /\ UNCHANGED <<c, now, do, auth, gvars, call, gos, built>>

\* Delete (lines 301-304) does nothing and returns nil.
ResourceDelete ==
    /\ InState
    /\ tf' = [tf EXCEPT !.op = "delete", !.arg = tf.d.id, !.before = tf.d.id,
                        !.found = FALSE]
    /\ UNCHANGED <<c, now, do, auth, gvars, call, gos, built>>

\* Import of an ID (lines 156-188), on resource data that holds only the ID:
\* an ID Create sets, or the ID Import sets.
ResourceImport ==
    /\ \E id \in {CreateId(o[1], o[2], o[3], o[4]) : o \in Objects}
                  \cup {ImportId(<<"s">>, <<"t">>, <<"g">>)},
          get \in {"ok", "error"} :
          LET r == resourceMSOSchemaSiteServiceGraphImport(
                       [NoData EXCEPT !.id = id], get, tf.graphs)
          IN  tf' = [tf EXCEPT !.op = "import", !.arg = id, !.before = id,
                               !.d = r.d, !.err = r.err, !.found = r.found]
    /\ UNCHANGED <<c, now, do, auth, gvars, call, gos, built>>

\* The site service graph leaves the server: its site is disassociated from
\* the template, or the graph is removed from the template.
ServerRemoves ==
    /\ \E o \in tf.graphs : tf' = [tf EXCEPT !.graphs = @ \ {o}]
    /\ UNCHANGED <<c, now, do, auth, gvars, call, gos, built>>

ResourceNext ==
    \/ ResourceCreate
    \/ ResourceRead
    \/ ResourceUpdate
    \/ ResourceDelete
    \/ ResourceImport
    \/ ServerRemoves

SpecResource == ResourceInit /\ [][ResourceNext]_vars

------------------------------------------------------------------------------
(* MakeRestRequest on its own: a caller builds a request from a verb and a  *)
(* path.                                                                    *)

\* The paths the callers of the model give: the login path, paths with and
\* without a leading '/', with queries, with a fragment, with ".." segments,
\* with a host, with a scheme, and two that do not parse.
RequestPaths ==
    {LoginPathND,
     <<"login">>,
     LoginPathND \o <<"?", "a", "=", "1">>,
     SchemasPath,
     Tail(SchemasPath),
     Tail(SchemasPath) \o <<"?", "validate", "=", "true", "&", "a", "=", "1">>,
     SchemasPath \o <<"?", "z", "=", "1", "&", "a", "=", "2", "&", "validate", "=",
                     "true", "&", "a", "=", "1", "&", "validate", "=", "1">>,
     Tail(SchemasPath) \o <<"?", "b">>,
     Tail(SchemasPath) \o <<"?">>,
     Tail(SchemasPath) \o <<"#", "f", "?", "a", "=", "1">>,
     <<"..", "/", "api", "/", "v1", "/", "schemas">>,
     <<"api", "/", "..", "/", "..", "/", "schemas">>,
     <<"/", "/", "other", "/", "api">>,
     <<"https", ":", "/", "/", "other", "/", "api", "?", "a", "=", "1">>,
     <<":", "api">>,
     <<"1", ":", "api">>,
     NoText}

MakeInit ==
    /\ \E p \in {"mso", "nd"}, u \in {GoodUrl,
                \* a base URL with a port and a path
                <<"https", ":", "/", "/", "nd", ":", "8443", "/", "base", "/">>} :
          c = initClient(u, <<"u">>, <<Option("platform", p)>>)
    /\ now = 0
    /\ do = IdleDo
    /\ auth = NoAuthFrame
    /\ NoGetClient
    /\ NoCalls
    /\ built = c

\* A caller calls MakeRestRequest: op and arg keep the verb and the path it
\* gave, do.req holds the request it got.
MakeCall ==
    /\ call.pc = "idle"
    /\ \E m \in {"GET", "PATCH", "POST"}, p \in RequestPaths, a \in BOOLEAN :
          LET r == MakeRestRequest(c, m, p, <<"{", "}">>, a)
          IN  /\ call' = [IdleCall EXCEPT !.pc = "built", !.op = m, !.arg = p,
                                          !.err = IF r.err THEN "request" ELSE "none"]
              /\ do' = [IdleDo EXCEPT !.req = r.req]
    /\ UNCHANGED <<c, now, auth, gvars, gos, built, tf>>

\* The caller lets the request go.
MakeDone ==
    /\ call.pc = "built"
    /\ call' = IdleCall
    /\ do' = IdleDo
    /\ UNCHANGED <<c, now, auth, gvars, gos, built, tf>>

MakeNext == MakeCall \/ MakeDone

SpecMake == MakeInit /\ [][MakeNext]_vars

------------------------------------------------------------------------------
(* Properties of the request executor.                                     *)

Last(h) == h[Len(h)]

\* A status that is neither 204, 2xx, 429 nor 503 (0 is a transport error).
NonRetryable(status) == status # 0 /\ ~Is2xx(status) /\ ~IsRetryStatus(status)

\* An attempt whose outcome asks for a retry.
Retryable(e) ==
    \/ e.status = 0
    \/ IsRetryStatus(e.status)
    \/ (Is2xx(e.status) /\ e.status # StatusNoContent /\ (~e.parsed \/ e.said))

\* The call went on to another attempt after attempt n.
Granted(n) == n < Len(do.hist) \/ do.pc = "loop"

AllRetryStatus(h) == \A n \in 1..Len(h) : IsRetryStatus(h[n].status)

All429(h) == \A n \in 1..Len(h) : h[n].status = StatusTooManyRequests

Max0(n) == IF n < 0 THEN 0 ELSE n

\* C1: a non-retryable status (not 204, 2xx, 429, 503) received on any attempt
\* ends the call on that attempt, with no backoff sleep for it, and the call
\* returns a non-nil error that describes the status code.
C1_NonRetryableStatusReturnsError ==
    \A n \in 1..Len(do.hist) :
        NonRetryable(do.hist[n].status) =>
            /\ n = Len(do.hist)
            /\ do.pc = "done"
            /\ do.sleeps = n - 1
            /\ do.ret.err.kind = "status"
            /\ do.ret.err.code = do.hist[n].status

\* C2: with maxRetries >= 0, a request whose every attempt returns 503 or 429
\* is sent exactly maxRetries + 1 times, sleeps exactly maxRetries times, and
\* returns an error that reports maxRetries + 1 attempts.
C2_RetryStatusExhaustsBudget ==
    (c.maxRetries >= 0 /\ Len(do.hist) > 0 /\ AllRetryStatus(do.hist)) =>
        IF do.pc = "done"
        THEN /\ do.sends = c.maxRetries + 1
             /\ do.sleeps = c.maxRetries
             /\ do.ret.err = StatusErr(Last(do.hist).status, c.maxRetries + 1)
        ELSE /\ do.pc = "loop"
             /\ do.sends <= c.maxRetries
             /\ do.sleeps = do.sends

C2_Witness ==
    /\ do.pc = "done"
    /\ c.maxRetries = 2
    /\ Len(do.hist) = 3
    /\ \A n \in 1..3 : do.hist[n].status = StatusServiceUnavailable
    /\ do.sleeps = 2
    /\ do.ret.err.attempts = 3

\* C3: for 0 <= k <= maxRetries, k attempts that return 429 followed by a 200
\* with a well-formed body (no retry function) return that payload and a nil
\* error after exactly k + 1 sends and k sleeps; after k such 429 the attempt
\* k + 1 is made.
C3_SuccessAfterK429 ==
    /\ (Len(do.hist) > 0 /\ All429(do.hist) /\ Len(do.hist) <= c.maxRetries) =>
          (do.pc = "loop" /\ do.sleeps = Len(do.hist) /\ do.sends = Len(do.hist))
    /\ (/\ ~do.retryFunc
        /\ Len(do.hist) > 0
        /\ All429(SubSeq(do.hist, 1, Len(do.hist) - 1))
        /\ Len(do.hist) - 1 <= c.maxRetries
        /\ Last(do.hist).status = StatusOKLow
        /\ Last(do.hist).parsed) =>
          /\ do.pc = "done"
          /\ do.ret.obj = Last(do.hist).obj
          /\ do.ret.obj # NilObj
          /\ do.ret.err = NoErr
          /\ do.sends = Len(do.hist)
          /\ do.sleeps = Len(do.hist) - 1

C3_Witness ==
    /\ do.pc = "done"
    /\ ~do.retryFunc
    /\ Len(do.hist) = 3
    /\ do.hist[1].status = StatusTooManyRequests
    /\ do.hist[2].status = StatusTooManyRequests
    /\ do.hist[3].status = StatusOKLow
    /\ do.ret.obj = Doc("A")
    /\ do.ret.err = NoErr
    /\ do.sleeps = 2

\* C4: every return that is not the 204 success carries exactly one of a
\* non-nil payload and a non-nil error.
C4_ExactlyOneOfPayloadAndError ==
    (do.pc = "done" /\ Last(do.hist).status # StatusNoContent) =>
        ((do.ret.obj = NilObj) # (do.ret.err = NoErr))

\* C5 as stated: one attempt counter from 1 that every retryable outcome
\* advances; at most maxRetries + 1 sends and at most maxRetries sleeps; a
\* retry is granted on attempt n exactly when n <= maxRetries.
C5_SharedBudget_Original ==
    /\ do.pc = "loop" => do.attempts = Len(do.hist) + 1
    /\ do.pc = "done" => do.attempts = Len(do.hist)
    /\ do.pc = "done" => do.sends <= c.maxRetries + 1
    /\ do.pc = "done" => do.sleeps <= c.maxRetries
    /\ \A n \in 1..Len(do.hist) :
          Retryable(do.hist[n]) => (Granted(n) <=> n <= c.maxRetries)

\* C5, amended: one attempt counter from 1 that every retryable outcome
\* advances; at most max(maxRetries, 0) + 1 sends and at most
\* max(maxRetries, 0) sleeps (a negative maxRetries still sends once); a retry
\* is granted on attempt n exactly when n <= maxRetries.
C5_SharedBudget ==
    /\ do.pc = "loop" => do.attempts = Len(do.hist) + 1
    /\ do.pc = "done" => do.attempts = Len(do.hist)
    /\ do.sends = Len(do.hist)
    /\ do.sends <= Max0(c.maxRetries) + 1
    /\ do.sleeps <= Max0(c.maxRetries)
    /\ do.pc = "loop" => do.sleeps = do.sends
    /\ do.pc = "done" => do.sleeps = do.sends - 1
    /\ \A n \in 1..Len(do.hist) :
          Retryable(do.hist[n]) => (Granted(n) <=> n <= c.maxRetries)

C5_Witness ==
    /\ do.pc = "done"
    /\ c.maxRetries = 2
    /\ do.retryFunc
    /\ Len(do.hist) = 3
    /\ do.hist[1].status = 0
    /\ do.hist[2].status = StatusTooManyRequests
    /\ do.hist[3].said
    /\ do.sleeps = 2
    /\ do.ret.err # NoErr

\* C6: on every retry of a request that carries a body, the body bytes put on
\* the wire are those of the first attempt, the bytes MakeRestRequest put in
\* the buffer.
C6_SameBodyOnRetry ==
    \A n \in 1..Len(do.wire) :
        /\ do.wire[n].bytes = do.wire[1].bytes
        /\ do.wire[n].bytes = do.req.body

ValidBackoff(cl) ==
    /\ 0 < EffMinDelay(cl)
    /\ EffMinDelay(cl) <= EffMaxDelay(cl)
    /\ EffFactor(cl).num >= EffFactor(cl).den

InRange(d, lo, hi) == lo * d.den <= d.num /\ d.num <= hi * d.den

\* C7: for every attempt number a >= 0, every jitter in [0.5, 1.0] and every
\* configuration with 0 < min <= max and factor >= 1, the delay of backoff
\* lies in [min, max].
C7_DelayWithinBounds ==
    ValidBackoff(c) =>
        /\ \A a \in 0..(MaxRetriesBound + 1), r \in 0..RandSteps :
              InRange(BackoffDelay(c, a, r), EffMinDelay(c), EffMaxDelay(c))
        /\ do.sleeps > 0 => InRange(do.delay, EffMinDelay(c), EffMaxDelay(c))

C7_Witness ==
    /\ ValidBackoff(c)
    /\ do.sleeps > 0
    /\ EffMinDelay(c) * do.delay.den < do.delay.num
    /\ do.delay.num < EffMaxDelay(c) * do.delay.den

\* The attempt yielded a 2xx response other than 204 with a decodable body.
Decoded2xx(e) ==
    /\ Is2xx(e.status)
    /\ e.status # StatusNoContent
    /\ e.obj.kind = "doc"

AllSaid(h) == \A n \in 1..Len(h) : Decoded2xx(h[n]) /\ h[n].said

\* The retry function is consulted once on each decodable 2xx attempt and on
\* no other, and an attempt it answers true to is retried from the shared
\* budget.
ConsultedOncePerDecoded2xx ==
    /\ \A n \in 1..Len(do.hist) :
          /\ do.hist[n].asked <=> (do.retryFunc /\ Decoded2xx(do.hist[n]))
          /\ do.hist[n].said =>
                /\ do.hist[n].asked
                /\ Granted(n) <=> n <= c.maxRetries
                /\ ~Granted(n) => do.ret.err = StatusErr(do.hist[n].status, n)
    /\ do.predCalls = Cardinality({n \in 1..Len(do.hist) : do.hist[n].asked})
    /\ ~do.retryFunc => do.predCalls = 0

\* C17 as stated: the retry predicate is consulted exactly once per attempt
\* that yields a non-204 2xx response with a decodable body and on no other
\* attempt; an attempt it returns true for is a retry that consumes the shared
\* budget, and a predicate that returns true on every such response makes the
\* call end with a non-nil error after maxRetries + 1 attempts.
C17_PredicateOnDecoded2xx_Original ==
    /\ ConsultedOncePerDecoded2xx
    /\ (do.retryFunc /\ Len(do.hist) > 0 /\ AllSaid(do.hist)) =>
          IF do.pc = "done"
          THEN /\ do.sends = c.maxRetries + 1
               /\ do.ret.err = StatusErr(Last(do.hist).status, c.maxRetries + 1)
          ELSE do.sends <= c.maxRetries

\* C17, amended: the retry predicate is consulted exactly once per attempt
\* that yields a non-204 2xx response with a decodable body and on no other
\* attempt; an attempt it returns true for is a retry that consumes the shared
\* budget, and a predicate that returns true on every such response makes the
\* call end with a non-nil error after max(maxRetries, 0) + 1 attempts (one
\* attempt when maxRetries is negative).
C17_PredicateOnDecoded2xx ==
    /\ ConsultedOncePerDecoded2xx
    /\ (do.retryFunc /\ Len(do.hist) > 0 /\ AllSaid(do.hist)) =>
          IF do.pc = "done"
          THEN /\ do.sends = Max0(c.maxRetries) + 1
               /\ do.predCalls = Max0(c.maxRetries) + 1
               /\ do.ret.err = StatusErr(Last(do.hist).status, Max0(c.maxRetries) + 1)
               /\ do.ret.err # NoErr
          ELSE do.sends <= c.maxRetries

C17_Witness ==
    /\ do.pc = "done"
    /\ do.retryFunc
    /\ c.maxRetries = 2
    /\ Len(do.hist) = 3
    /\ AllSaid(do.hist)
    /\ do.predCalls = 3
    /\ do.ret.err = StatusErr(StatusOKLow, 3)

------------------------------------------------------------------------------
(* Properties of Authenticate.                                             *)

\* C8: whenever Authenticate returns an error (invalid token, empty response,
\* failed login exchange, failed domain lookup, unbuildable payload), the
\* stored session token and its expiry are what they were before the call.
C8_FailedAuthKeepsToken ==
    /\ auth.pc \in {"lookup", "login"} => c.AuthToken = auth.before
    /\ (auth.pc = "returned" /\ auth.ret # "ok") => c.AuthToken = auth.before

C8_Witness ==
    /\ auth.pc = "returned"
    /\ auth.ret = "invalid"
    /\ auth.before.set
    /\ auth.before.Expiry < CalculateExpiry(now, RefreshTime)
    /\ c.AuthToken = auth.before

\* C9: after any sequence of Authenticate calls the stored token is unset (no
\* login has succeeded yet) or is the token the most recent successful login
\* returned, and it is never empty nor "{}".
C9_StoredTokenIsLastLogin ==
    /\ c.AuthToken.set <=> auth.lastLogin.set
    /\ ~c.AuthToken.set => c.AuthToken = NoAuth
    /\ c.AuthToken.set =>
          /\ c.AuthToken.Token = auth.lastLogin.token
          /\ c.AuthToken.Token # NoText
          /\ c.AuthToken.Token # <<"{", "}">>

C9_Witness ==
    /\ auth.pc = "returned"
    /\ auth.ret = "ok"
    /\ auth.before.set
    /\ auth.before.Token # c.AuthToken.Token
    /\ c.AuthToken.Token = <<"b">>

------------------------------------------------------------------------------
(* Properties of GetClient.                                                *)

\* C10: when several callers invoke GetClient concurrently before any
\* instance exists, initClient runs exactly once and every caller receives
\* the same Client instance.
C10_SingleInstance ==
    /\ Len(heap) <= 1
    /\ \A i, j \in Callers :
          (callers[i].pc = "done" /\ callers[j].pc = "done") =>
              callers[i].result = callers[j].result

C11_State ==
    /\ Len(heap) <= 1
    /\ clientImpl \in {NilClient, 1}
    /\ clientImpl # NilClient => Len(heap) = 1
    /\ \A i \in Callers :
          callers[i].pc = "done" => (callers[i].result = 1 /\ clientImpl = 1)

C11_Step ==
    /\ (heap = << >> /\ heap' # << >>) =>
          \E i \in Callers :
              /\ callers[i].pc = "init"
              /\ heap' = <<initClient(callers[i].args.url, callers[i].args.username,
                                      callers[i].args.options)>>
    /\ heap # << >> => heap' = heap
    /\ clientImpl # NilClient => clientImpl' = clientImpl

\* C11: in a sequential series of GetClient calls the first call builds the
\* instance from its arguments (url, username, options in order), and every
\* later call, whatever it passes, returns that instance, which is neither
\* rebuilt nor changed in any field.
C11_FirstCallWins == []C11_State /\ [][C11_Step]_vars

C11_Witness ==
    /\ Len(heap) = 1
    /\ heap[1] = initClient(OtherUrl, <<"v">>,
                            <<Option("maxRetries", 1), Option("platform", "nd"),
                              Option("maxRetries", 2)>>)
    /\ heap[1].maxRetries = 2
    /\ \E i, j \in Callers :
          /\ i # j
          /\ callers[i].pc = "done" /\ callers[i].args.url = OtherUrl
          /\ callers[j].pc = "done" /\ callers[j].args.url = GoodUrl
          /\ callers[j].result = callers[i].result

------------------------------------------------------------------------------
(* Properties of concurrent Authenticate calls.                            *)

\* The goroutine is between its first and its last write to c.AuthToken.
InUpdate(i) == gos[i].pc \in {"token", "expiry"}

\* C12: every write Authenticate makes to the session token and its expiry
\* happens while the writing goroutine holds the client's Mutex, so no two
\* concurrent Authenticate calls are in their token-update steps at once.
C12_TokenWritesUnderMutex ==
    /\ \A i \in Callers : InUpdate(i) => c.Mutex = i
    /\ \A i, j \in Callers : (InUpdate(i) /\ InUpdate(j)) => i = j

------------------------------------------------------------------------------
(* Properties of the client in use.                                        *)

\* C13: after initClient returns, no client operation changes a configuration
\* field: login domain, declared version, payload-logging suppression flag,
\* platform, retry count and backoff settings keep their constructed values
\* in every reachable state.
C13_ConfigImmutable ==
    /\ c.domain = built.domain
    /\ c.version = built.version
    /\ c.skipLoggingPayload = built.skipLoggingPayload
    /\ c.platform = built.platform
    /\ c.maxRetries = built.maxRetries
    /\ c.backoffMinDelay = built.backoffMinDelay
    /\ c.backoffMaxDelay = built.backoffMaxDelay
    /\ c.backoffDelayFactor = built.backoffDelayFactor

\* C14: if the client is constructed with payload-logging suppression
\* enabled, no attempt of any Authenticate or request-execution call logs a
\* request or response body, after any number of logins.
C14_SuppressionPersists == built.skipLoggingPayload => ~do.logged

\* Parseable version texts in their order, equal versions side by side.
VersionChain ==
    <<{<<"1", ".", "0", "-", "b">>},
      {V10, <<"1", ".", "0", ".", "0">>, <<"v", "1", ".", "0">>},
      {V12},
      {<<"2">>, <<"2", ".", "0">>},
      {V201, <<"v", "2", ".", "0", ".", "1">>},
      {<<"1", "0", ".", "0">>}>>

VersionTexts == UNION {VersionChain[k] : k \in 1..Len(VersionChain)}

PlaceOf(text) == CHOOSE k \in 1..Len(VersionChain) : text \in VersionChain[k]

Sign(n) == IF n < 0 THEN -1 ELSE IF n > 0 THEN 1 ELSE 0

MajorIndex(text) == IF HasPrefix(text, "v") THEN 2 ELSE 1

\* The major version is one digit below 9.
SmallMajor(text) ==
    /\ DigitOf(text[MajorIndex(text)]) < 9
    /\ Len(text) = MajorIndex(text) \/ ~IsDigit(text[MajorIndex(text) + 1])

\* The text with its major version raised by one.
MajorAbove(text) ==
    [text EXCEPT ![MajorIndex(text)] = Digits[DigitOf(text[MajorIndex(text)]) + 2]]

\* C15: for every parseable cached version c and parseable target t,
\* CompareVersion(t) returns -1, 0 or 1 as t is smaller than, equal to or
\* larger than c, with a nil error; CompareVersion(c) is 0 and a target one
\* major version above c gives 1.
C15_CompareVersionSign ==
    (call.pc = "returned" /\ call.op = "CompareVersion"
                          /\ call.arg \in VersionTexts) =>
        /\ \A cached \in VersionTexts :
              CompareVersionResult(cached, call.arg) =
                  [err |-> "nil", cmp |-> Sign(PlaceOf(call.arg) - PlaceOf(cached))]
        /\ CompareVersionResult(call.arg, call.arg) = [err |-> "nil", cmp |-> 0]
        /\ SmallMajor(call.arg) =>
              CompareVersionResult(call.arg, MajorAbove(call.arg)) =
                  [err |-> "nil", cmp |-> 1]
        /\ c.version \in VersionTexts =>
              /\ call.err = "nil"
              /\ call.cmp = Sign(PlaceOf(call.arg) - PlaceOf(c.version))
              /\ call.arg = c.version => call.cmp = 0

C15_Witness ==
    /\ call.pc = "returned"
    /\ call.op = "CompareVersion"
    /\ call.atEntry = NoText
    /\ c.version = V201
    /\ call.arg = <<"1", ".", "0", "-", "b">>
    /\ call.err = "nil"
    /\ call.cmp = -1

\* The places of the listing whose name is d.
Matches(list, d) == {k \in 1..Len(list) : list[k].name = Str(d)}

Least(S) == CHOOSE k \in S : \A m \in S : k <= m

\* GetDomainId has returned, and its c.Do had handed it a decoded listing.
LookupOfListing ==
    /\ call.pc = "returned"
    /\ call.op = "GetDomainId"
    /\ call.ret.err = NoErr
    /\ call.ret.obj.isArray
    /\ ~call.ret.obj.isErr

\* C16: GetDomainId(d) returns the id of the first element of the domains
\* listing whose name equals d exactly (case-sensitive), and returns the
\* not-found error if and only if no element of the listing has that name.
C16_FirstMatchingDomain ==
    LookupOfListing =>
        LET list == call.ret.obj.domains
            found == Matches(list, call.arg)
        IN  /\ found = {} <=> call.err = "lookup"
            /\ found # {} => /\ call.err = "nil"
                             /\ call.text = list[Least(found)].id.s

C16_Witness ==
    /\ LookupOfListing
    /\ Len(call.ret.obj.domains) = 3
    /\ call.arg = <<"d">>
    /\ Cardinality(Matches(call.ret.obj.domains, <<"d">>)) = 2
    /\ call.err = "nil"
    /\ call.text = <<"3">>

\* A CompareVersion call is in progress or has returned.
InCompareVersion(pc) == call.op = "CompareVersion" /\ call.pc = pc

\* The GetVersion of the CompareVersion that has returned did not succeed.
LazyGetVersionFailed ==
    /\ call.atEntry = NoText
    /\ call.sends = 0 \/ GetVersionResult(call.ret).err # "nil"

\* What holds of CompareVersion whoever calls it: a request it sends is the
\* authenticated platform-version GET and is sent only with no version
\* cached; a cached version is never fetched again; a failed lazy GetVersion
\* gives an error and leaves the version unset.
LazyVersion ==
    /\ InCompareVersion("do") =>
          /\ call.atEntry = NoText
          /\ do.req.method = "GET"
          /\ IsPath(do.req.path, VersionPath)
          /\ do.req.auth
    /\ InCompareVersion("returned") =>
          /\ call.sends > 0 => call.atEntry = NoText
          /\ call.atEntry # NoText => c.version = call.atEntry
          /\ LazyGetVersionFailed => (call.err # "nil" /\ c.version = NoText)
          /\ (call.atEntry = NoText /\ ~LazyGetVersionFailed) =>
                c.version = GetVersionResult(call.ret).version

\* C18 as stated: CompareVersion issues the platform-version GET if and only
\* if no version is cached when it is called; once a version is cached no
\* later CompareVersion issues a request, and when the lazy GetVersion fails
\* CompareVersion returns a non-nil error and leaves the version unset.
C18_LazyGetVersion_Original ==
    /\ LazyVersion
    /\ InCompareVersion("returned") => (call.sends > 0 <=> call.atEntry = NoText)

\* C18, amended: CompareVersion issues the platform-version GET if and only
\* if no version is cached when it is called and the client holds a session
\* token (without one the request cannot be built and nothing is sent); once
\* a version is cached no later CompareVersion issues a request, and when the
\* lazy GetVersion fails CompareVersion returns a non-nil error and leaves
\* the version unset.
C18_LazyGetVersion ==
    /\ LazyVersion
    /\ InCompareVersion("returned") =>
          (call.sends > 0 <=> (call.atEntry = NoText /\ c.AuthToken.set))

C18_Witness ==
    /\ InCompareVersion("returned")
    /\ call.atEntry = NoText
    /\ call.sends = 1
    /\ c.version = V10
    /\ call.arg = V12
    /\ call.err = "nil"
    /\ call.cmp = 1

------------------------------------------------------------------------------
(* Properties of the requests of Authenticate.                             *)

Classic == c.platform # "nd"

\* The request in the hands of Do is the unauthenticated domain-lookup GET.
IsLookupGet(req) ==
    req.method = "GET" /\ IsPath(req.path, LoginDomainsPath) /\ ~req.auth

\* The request in the hands of Do is the unauthenticated login POST that
\* carries body.
IsLoginPost(req, body) ==
    /\ req.method = "POST"
    /\ req.path = (IF Classic THEN LoginPathMSO ELSE LoginPathND)
    /\ ~req.auth
    /\ req.body = <<body>>

\* The lookup handed Authenticate a listing that holds the domain.
LookupFound(ret, domain) ==
    /\ ret.err = NoErr
    /\ ret.obj.isArray
    /\ ~ret.obj.isErr
    /\ Matches(ret.obj.domains, domain) # {}

\* C19: on the classic platform with a login domain configured the
\* unauthenticated domain-lookup GET completes before the login POST is sent,
\* and a failed lookup (transport, decode, no matching name) sends no login
\* POST at all; on the gateway platform no domain-lookup request is ever
\* issued and the domain name goes into the login body as it is.
C19_LookupBeforeLogin ==
    /\ auth.pc = "lookup" =>
          /\ Classic /\ c.domain # NoText
          /\ IsLookupGet(do.req)
          /\ auth.logins = 0
    /\ auth.pc = "login" =>
          /\ IsLoginPost(do.req, auth.body)
          /\ (Classic /\ c.domain # NoText) =>
                /\ auth.lookups >= 1
                /\ LookupFound(auth.lookupRet, c.domain)
                /\ auth.body.domainKey = "domainId"
                /\ auth.body.domainVal =
                      auth.lookupRet.obj.domains[
                          Least(Matches(auth.lookupRet.obj.domains, c.domain))].id.s
          /\ (Classic /\ c.domain = NoText) => auth.lookups = 0
    /\ auth.pc = "returned" =>
          /\ auth.ret = "lookup" <=>
                (auth.lookups >= 1 /\ ~LookupFound(auth.lookupRet, c.domain))
          /\ auth.ret = "lookup" => auth.logins = 0
          /\ auth.logins >= 1 =>
                (Classic /\ c.domain # NoText => LookupFound(auth.lookupRet, c.domain))
    /\ ~Classic =>
          /\ auth.pc # "lookup"
          /\ auth.lookups = 0
          /\ auth.pc = "login" =>
                (auth.body.domainKey = "domain" /\ auth.body.domainVal = c.domain)

C19_Witness ==
    /\ auth.pc = "login"
    /\ Classic
    /\ c.domain = <<"d">>
    /\ auth.lookups = 2
    /\ Len(auth.lookupRet.obj.domains) = 3
    /\ auth.body.domainVal = <<"3">>
    /\ do.sends = 1

\* The body holds the two credential fields of its platform and nothing else.
CredentialsOnly(body) ==
    body = [NoLoginBody EXCEPT !.shape = IF Classic THEN "mso" ELSE "nd",
                               !.username = c.username, !.password = c.password]

------------------------------------------------------------------------------
(* Properties of backoff under every accepted configuration.               *)

\* C23: for every configuration the options accept, with unset (zero) min,
\* max and factor replaced by the defaults 4s, 60s and 3.0, every delay that
\* backoff sleeps lies in [effective min, effective max], also when only one
\* bound is overridden (a minimum above the default maximum) or the factor
\* is below 1.
C23_DelayWithinEffectiveBounds ==
    do.sleeps > 0 => InRange(do.delay, EffMinDelay(c), EffMaxDelay(c))

\* An attempt that the claim says is returned as an error: a transport error,
\* 429, 503, a malformed 2xx body, or a retry asked by the retry function.
FailedAttempt(e) == Retryable(e)

\* C24: when the MaxRetries option is not supplied (maxRetries = 0) or is
\* negative, every DoWithRetryFunc call performs exactly one send and never
\* sleeps, whatever the outcome: a transport error, 429, 503, malformed 2xx
\* body or retry asked by the caller's function on the first attempt is
\* returned as an error at once.
C24_NoRetryWithoutBudget ==
    c.maxRetries <= 0 =>
        /\ do.sleeps = 0
        /\ do.pc = "loop" => (do.sends = 0 /\ do.hist = << >>)
        /\ do.pc = "done" =>
              /\ do.sends = 1
              /\ Len(do.hist) = 1
              /\ FailedAttempt(do.hist[1]) => do.ret.err # NoErr
              /\ do.hist[1].status = 0 => do.ret.err = TransportErr
              /\ (do.hist[1].status # 0 /\ FailedAttempt(do.hist[1])) =>
                    do.ret.err = StatusErr(do.hist[1].status, 1)

C24_Witness ==
    /\ c.maxRetries = -1
    /\ do.pc = "done"
    /\ do.retryFunc
    /\ do.hist[1].said
    /\ do.sends = 1
    /\ do.ret.err = StatusErr(StatusOKLow, 1)

------------------------------------------------------------------------------
(* Properties of the log under concurrent Authenticate calls.              *)

\* C25: under any interleaving of concurrent Authenticate calls on the shared
\* client, the request and response payloads of the login exchange, which
\* carry the password and the token, are never written to the log: payload
\* logging is suppressed for every attempt of every login POST, from its
\* first send until its response has been handled.
C25_LoginPayloadNeverLogged ==
    \A i \in Callers : ~gos[i].do.logged

------------------------------------------------------------------------------
(* Properties of the site service graph resource.                          *)

\* The ID is the one Create sets for the object.
IsCreateIdOf(id, o) == id = CreateId(o[1], o[2], o[3], o[4])

\* C26: the ID written by Create
\* (schemaId/sites/siteId/template/templateName/serviceGraphs/graphName)
\* round-trips through Import: Import parses schema, site, template and graph
\* from it and finishes with the resource ID equal to the ID Create produced
\* for the same object; and Read never changes a non-empty ID except to clear
\* it when the site service graph is not found.
C26_IdRoundTrip ==
    /\ (tf.op = "create" /\ tf.err = "none" /\ tf.found) =>
          IsCreateIdOf(tf.d.id, ObjectOf(tf.d))
    /\ \A o \in Objects :
          (tf.op = "import" /\ IsCreateIdOf(tf.arg, o) /\ tf.err = "none") =>
              /\ ObjectOf(tf.d) = o
              /\ tf.d.id = tf.arg
    /\ (tf.op = "read" /\ tf.before # NoText) =>
          \/ tf.d.id = tf.before
          \/ tf.d.id = NoText /\ ~tf.found

------------------------------------------------------------------------------
(* Properties of MakeRestRequest.                                          *)

\* MakeRestRequest has built a request from the verb call.op and the path
\* call.arg.
Built == call.pc = "built" /\ call.err = "none"

\* The part of a path in front of its query and its fragment.
PathPart(text) ==
    LET q == IndexOf(text, "?")
        h == IndexOf(text, "#")
        end == IF q = 0 /\ h = 0 THEN Len(text) + 1
               ELSE IF q = 0 THEN h
               ELSE IF h = 0 THEN q
               ELSE IF q < h THEN q ELSE h
    IN  Upto(text, end - 1)

\* The query a path is given with: what stands between its first '?' and
\* its fragment.
GivenQuery(text) ==
    LET h == IndexOf(text, "#")
        u == IF h = 0 THEN text ELSE Upto(text, h - 1)
        q == IndexOf(u, "?")
    IN  IF q = 0 THEN NoText ELSE From(u, q + 1)

\* The path is given with a '?' and nothing behind it.
LoneQuestionMark(text) ==
    LET h == IndexOf(text, "#")
        u == IF h = 0 THEN text ELSE Upto(text, h - 1)
    IN  IndexOf(u, "?") # 0 /\ IndexOf(u, "?") = Len(u)

\* The directory of the base URL, which relative paths are resolved in.
BaseDir(base) ==
    IF base.Path = NoText THEN <<"/">>
    ELSE Upto(base.Path, LastIndexOf(base.Path, "/"))

\* C21: for every path p and verb, MakeRestRequest on the gateway (nd)
\* platform addresses the request at mso/ followed by p with one leading '/'
\* removed whenever p is not exactly /login, and leaves /login unprefixed; on
\* the classic platform the path is never prefixed. The resulting URL keeps
\* the scheme, the host and the port of the base URL.
C21_GatewayPrefixAndBase ==
    Built =>
        LET p == call.arg
            stripped == IF HasPrefix(p, "/") THEN Tail(p) ELSE p
        IN  /\ (c.platform = "nd" /\ p # LoginPathND) =>
                  /\ do.req.path = <<"mso", "/">> \o stripped
                  /\ do.req.url.Path =
                        BaseDir(c.BaseURL) \o <<"mso", "/">> \o PathPart(stripped)
            /\ (c.platform = "nd" /\ p = LoginPathND) =>
                  (do.req.path = p /\ do.req.url.Path = LoginPathND)
            /\ c.platform # "nd" => do.req.path = p
            /\ do.req.url.Scheme = c.BaseURL.Scheme
            /\ do.req.url.Host = c.BaseURL.Host

\* The pieces of a query between its '&'.
PiecesOf(query) ==
    LET NotEmpty(piece) == piece # NoText
    IN  SelectSeq(SplitOn(query, "&"), NotEmpty)

KeyOfPiece(piece) ==
    IF IndexOf(piece, "=") = 0 THEN piece ELSE Upto(piece, IndexOf(piece, "=") - 1)

ValueOfPiece(piece) ==
    IF IndexOf(piece, "=") = 0 THEN NoText ELSE From(piece, IndexOf(piece, "=") + 1)

KeysOfQuery(query) ==
    {KeyOfPiece(PiecesOf(query)[n]) : n \in 1..Len(PiecesOf(query))}

\* The values the query gives the key, in their order.
ValuesOfKey(query, key) ==
    LET HasKey(piece) == KeyOfPiece(piece) = key
        mine == SelectSeq(PiecesOf(query), HasKey)
    IN  [n \in 1..Len(mine) |-> ValueOfPiece(mine[n])]

\* C22: every request built by MakeRestRequest with verb PATCH has the query
\* parameter validate=false, overriding any validate value already present in
\* the path and preserving the path's other query parameters; requests built
\* with any other verb have their query string left exactly as given.
C22_ValidateFalseOnPatch ==
    Built =>
        LET given == GivenQuery(call.arg)
            query == do.req.url.RawQuery
        IN  IF call.op = "PATCH"
            THEN /\ ValuesOfKey(query, <<"validate">>) = << <<"false">> >>
                 /\ \A k \in (KeysOfQuery(given) \cup KeysOfQuery(query))
                                \ {<<"validate">>} :
                        ValuesOfKey(query, k) = ValuesOfKey(given, k)
            ELSE /\ query = given
                 /\ do.req.url.ForceQuery = LoneQuestionMark(call.arg)

C22_Witness ==
    /\ Built
    /\ call.op = "PATCH"
    /\ GivenQuery(call.arg) =
          <<"z", "=", "1", "&", "a", "=", "2", "&", "validate", "=", "true", "&",
            "a", "=", "1", "&", "validate", "=", "1">>
    /\ do.req.url.RawQuery =
          <<"a", "=", "2", "&", "a", "=", "1", "&", "validate", "=", "false", "&",
            "z", "=", "1">>

====
